---------------------------- MODULE Spec2Model ----------------------------
(***************************************************************************)
(* PadiChat: the agent control loop (agent.py: call_llm, should_continue,   *)
(* execute_tools, build_agent_graph) and the turn handler that loads,       *)
(* trims and saves the per-user history (handlers.py:                       *)
(* _invoke_agent_and_respond).                                              *)
(*                                                                         *)
(* Python values are modelled as follows.  None is the string token None;  *)
(* a str is a TLA+ string; a list is a sequence; a dict is a record.  A     *)
(* Python index i (0-based, -1 for "not found") is the TLA+ index i + 1     *)
(* (1-based, 0 for "not found").                                            *)
(***************************************************************************)
EXTENDS Integers, Sequences, FiniteSets, TLC

None == "<None>"
Absent == "<absent>"

\* Python truthiness of an Optional[str]
Truthy(x) == x # None /\ x # ""

\* x or y
PyOr(x, y) == IF Truthy(x) THEN x ELSE y

(***************************************************************************)
(* Program constants                                                       *)
(***************************************************************************)
TEXT_TOOL_MODEL_NAME == "meta-llama/Meta-Llama-3.1-70B-Instruct-fast"
VISION_MODEL_NAME == "google/gemma-3-27b-it-fast"

max_history_len == 10

\* tools.py: the schemas advertised to the model, by tool name
available_tools_definitions == <<"get_current_weather", "web_search">>

\* tools.py: the names tool_executor_map has a callable for
tool_executor_map == {"get_current_weather", "web_search"}

LANG_CODE_TO_NAME(code) ==
    CASE code = "en" -> "English"
      [] code = "id" -> "Bahasa Indonesia"
      [] code = "vi" -> "Vietnamese"
      [] code = "th" -> "Thai"
      [] code = "tl" -> "Tagalog"
      [] OTHER -> "English"

(***************************************************************************)
(* Messages (langchain_core.messages), one record shape for the four kinds *)
(***************************************************************************)
SystemMessage(c) ==
    [type |-> "system", content |-> c, tool_calls |-> <<>>,
     tool_call_id |-> None, name |-> None]

HumanMessage(c) ==
    [type |-> "human", content |-> c, tool_calls |-> <<>>,
     tool_call_id |-> None, name |-> None]

AIMessage(c, tcs) ==
    [type |-> "ai", content |-> c, tool_calls |-> tcs,
     tool_call_id |-> None, name |-> None]

ToolMessage(c, id, n) ==
    [type |-> "tool", content |-> c, tool_calls |-> <<>>,
     tool_call_id |-> id, name |-> n]

Last(s) == s[Len(s)]

(***************************************************************************)
(* JSON of a tool call's arguments: two payloads, one that decodes to a    *)
(* dict and one that json.loads rejects.                                    *)
(***************************************************************************)
GoodArguments == "{\"location\": \"Jakarta\"}"
BadArguments == "{\"location\": "

JsonLoads(s) ==
    IF s = GoodArguments
    THEN [ok |-> TRUE, value |-> [location |-> "Jakarta"]]
    ELSE [ok |-> FALSE, value |-> [location |-> ""]]

JsonDumps(d) ==
    IF d = [location |-> "Jakarta"] THEN GoodArguments ELSE "{}"


(***************************************************************************)
(* agent.py call_llm, lines 38-48: model and tool configuration            *)
(***************************************************************************)
\* a configuration that selects the vision model whatever the turn
ModelConfigAlwaysVision(image_data_b64) ==
    [model_to_use |-> VISION_MODEL_NAME,
     tools_to_pass |-> <<>>,
     tool_choice_to_pass |-> None]

ModelConfig(image_data_b64) ==
    IF Truthy(image_data_b64)
    THEN [model_to_use |-> VISION_MODEL_NAME,
          tools_to_pass |-> <<>>,
          tool_choice_to_pass |-> None]
    ELSE [model_to_use |-> TEXT_TOOL_MODEL_NAME,
          tools_to_pass |-> available_tools_definitions,
          tool_choice_to_pass |-> "auto"]

(***************************************************************************)
(* agent.py call_llm, lines 55-82: one history message as payload entries   *)
(* (a sequence of zero or one entry).  An entry whose "content" key was     *)
(* deleted has content = Absent.                                            *)
(***************************************************************************)
ApiToolCall(tc) ==
    [id |-> tc.id, type |-> "function", name |-> tc.name,
     arguments |-> JsonDumps(tc.args)]

ApiToolCalls(tcs) == [i \in 1..Len(tcs) |-> ApiToolCall(tcs[i])]

PayloadEntry(role, content, tcs, id, n) ==
    [role |-> role, content |-> content, tool_calls |-> tcs,
     tool_call_id |-> id, name |-> n, image_url |-> None]

FormatAIMessage(msg) ==
    LET c0 == msg.content
        hasCalls == msg.tool_calls # <<>>
        c1 == IF hasCalls
              THEN (IF c0 = None THEN Absent ELSE c0)
              ELSE (IF c0 = None THEN "" ELSE c0)
        got == IF c1 = Absent THEN None ELSE c1   \* ai_msg_data.get("content")
    IN IF got # None \/ hasCalls
       THEN << PayloadEntry("assistant", c1,
                            IF hasCalls THEN ApiToolCalls(msg.tool_calls) ELSE <<>>,
                            None, None) >>
       ELSE << >>

FormatMessage(msg) ==
    CASE msg.type = "human" ->
           << PayloadEntry("user", PyOr(msg.content, ""), <<>>, None, None) >>
      [] msg.type = "ai" -> FormatAIMessage(msg)
      [] msg.type = "tool" ->
           << PayloadEntry("tool", PyOr(msg.content, ""), <<>>,
                           msg.tool_call_id, msg.name) >>
      [] msg.type = "system" ->
           << PayloadEntry("system", PyOr(msg.content, ""), <<>>, None, None) >>
      [] OTHER -> << >>

RECURSIVE FormatMessages(_)
FormatMessages(msgs) ==
    IF msgs = << >> THEN << >>
    ELSE FormatMessages(SubSeq(msgs, 1, Len(msgs) - 1)) \o FormatMessage(Last(msgs))

FirstHumanMessageIndex(msgs) ==
    LET H == {i \in 1..Len(msgs) : msgs[i].type = "human"}
    IN IF H = {} THEN 0 ELSE CHOOSE i \in H : \A j \in H : i <= j

\* last_human_message_index: 0 when the history holds no HumanMessage
LastHumanMessageIndex(msgs) ==
    LET H == {i \in 1..Len(msgs) : msgs[i].type = "human"}
    IN IF H = {} THEN 0 ELSE CHOOSE i \in H : \A j \in H : j <= i

DataUrl(b64) ==
    CASE b64 = "anBlZw==" -> "data:image/jpeg;base64,anBlZw=="
      [] OTHER -> "data:image/jpeg;base64,"

\* agent.py call_llm, lines 84-95: image attachment
AttachImage(formatted, last_human_message_index, image_data_b64) ==
    IF Truthy(image_data_b64) /\ last_human_message_index # 0
    THEN [formatted EXCEPT ![last_human_message_index].image_url =
                               DataUrl(image_data_b64)]
    ELSE IF Truthy(image_data_b64)
    THEN Append(formatted,
                [PayloadEntry("user", "Analyze this image.", <<>>, None, None)
                     EXCEPT !.image_url = DataUrl(image_data_b64)])
    ELSE formatted

\* agent.py call_llm, line 98
ValidFormattedMessages(formatted) ==
    SelectSeq(formatted, LAMBDA m : Truthy(m.role))

(***************************************************************************)
(* agent.py call_llm, lines 105-121: the parameters of the completion call *)
(***************************************************************************)
\* keys is the set of keys of the api_call_params dict; tools and tool_choice
\* are read only when their key is in it.
NoRequest ==
    [keys |-> {}, model |-> None, messages |-> << >>,
     tools |-> << >>, tool_choice |-> None]

ApiCallParamsAlwaysTools(cfg, valid_formatted_messages) ==
    [keys |-> {"model", "messages", "temperature", "tools", "tool_choice"},
     model |-> cfg.model_to_use, messages |-> valid_formatted_messages,
     tools |-> cfg.tools_to_pass, tool_choice |-> cfg.tool_choice_to_pass]

ApiCallParams(cfg, valid_formatted_messages) ==
    IF cfg.model_to_use = TEXT_TOOL_MODEL_NAME /\ cfg.tools_to_pass # <<>>
    THEN [keys |-> {"model", "messages", "temperature", "tools", "tool_choice"},
          model |-> cfg.model_to_use, messages |-> valid_formatted_messages,
          tools |-> cfg.tools_to_pass, tool_choice |-> cfg.tool_choice_to_pass]
    ELSE [keys |-> {"model", "messages", "temperature"},
          model |-> cfg.model_to_use, messages |-> valid_formatted_messages,
          tools |-> << >>, tool_choice |-> None]

(***************************************************************************)
(* agent.py call_llm, lines 125-147: the reply parsed into an AIMessage     *)
(***************************************************************************)
RECURSIVE ParseToolCallsStopsAtFirstError(_)
ParseToolCallsStopsAtFirstError(raw) ==
    IF raw = << >> THEN << >>
    ELSE LET tool_call == Head(raw)
             parsed == JsonLoads(tool_call.arguments)
         IN IF parsed.ok
            THEN << [id |-> tool_call.id, name |-> tool_call.name,
                     args |-> parsed.value] >>
                     \o ParseToolCallsStopsAtFirstError(Tail(raw))
            ELSE << >>

RECURSIVE ParseToolCalls(_)
ParseToolCalls(raw) ==
    IF raw = << >> THEN << >>
    ELSE LET tool_call == Head(raw)
             parsed == JsonLoads(tool_call.arguments)
         IN (IF parsed.ok
             THEN << [id |-> tool_call.id, name |-> tool_call.name,
                      args |-> parsed.value] >>
             ELSE << >>) \o ParseToolCalls(Tail(raw))

ParseReply(message) ==
    AIMessage(IF message.content # None THEN message.content ELSE "",
              ParseToolCalls(message.tool_calls))

\* agent.py call_llm, lines 149-159: the two except branches
BadRequestContent(model_to_use) ==
    IF model_to_use = VISION_MODEL_NAME
    THEN "Sorry, there was an error communicating with the AI model (google/gemma-3-27b-it-fast). Details: Unknown. Please try again or rephrase."
    ELSE "Sorry, there was an error communicating with the AI model (meta-llama/Meta-Llama-3.1-70B-Instruct-fast). Details: Unknown. Please try again or rephrase."

UnexpectedErrorContent(model_to_use) ==
    IF model_to_use = VISION_MODEL_NAME
    THEN "Sorry, an unexpected error occurred while processing your request with model google/gemma-3-27b-it-fast (APIConnectionError)."
    ELSE "Sorry, an unexpected error occurred while processing your request with model meta-llama/Meta-Llama-3.1-70B-Instruct-fast (APIConnectionError)."

(***************************************************************************)
(* agent.py call_llm, lines 121-159: the completion call inside the try     *)
(* block.  outcome is what the backend does: [kind |-> "reply", content,    *)
(* tool_calls], or a raised BadRequestError, or another raised Exception.   *)
(* The result is the message the node returns and whether an exception      *)
(* leaves the node.                                                         *)
(***************************************************************************)
CompleteAndParseNoCatchAll(model_to_use, outcome) ==
    CASE outcome.kind = "reply" ->
           [raised |-> FALSE, message |-> ParseReply(outcome)]
      [] outcome.kind = "BadRequestError" ->
           [raised |-> FALSE,
            message |-> AIMessage(BadRequestContent(model_to_use), << >>)]
      [] OTHER ->
           [raised |-> TRUE,
            message |-> AIMessage(UnexpectedErrorContent(model_to_use), << >>)]

CompleteAndParse(model_to_use, outcome) ==
    CASE outcome.kind = "reply" ->
           [raised |-> FALSE, message |-> ParseReply(outcome)]
      [] outcome.kind = "BadRequestError" ->
           [raised |-> FALSE,
            message |-> AIMessage(BadRequestContent(model_to_use), << >>)]
      [] OTHER ->
           [raised |-> FALSE,
            message |-> AIMessage(UnexpectedErrorContent(model_to_use), << >>)]

(***************************************************************************)
(* agent.py call_llm: the whole node.  The result names the request made    *)
(* (NoRequest when none), the message returned to the graph, and whether    *)
(* an exception leaves the node.                                            *)
(***************************************************************************)
call_llm_no_empty_check(state_messages, image_data_b64, outcome) ==
    LET cfg == ModelConfig(image_data_b64)
        formatted_messages ==
            AttachImage(FormatMessages(state_messages),
                        LastHumanMessageIndex(state_messages), image_data_b64)
        valid_formatted_messages == ValidFormattedMessages(formatted_messages)
        res == CompleteAndParse(cfg.model_to_use, outcome)
    IN [request |-> ApiCallParams(cfg, valid_formatted_messages),
        raised |-> res.raised, message |-> res.message]

call_llm(state_messages, image_data_b64, outcome) ==
    LET cfg == ModelConfig(image_data_b64)
        formatted_messages ==
            AttachImage(FormatMessages(state_messages),
                        LastHumanMessageIndex(state_messages), image_data_b64)
        valid_formatted_messages == ValidFormattedMessages(formatted_messages)
        res == CompleteAndParse(cfg.model_to_use, outcome)
    IN IF valid_formatted_messages = << >>
       THEN [request |-> NoRequest, raised |-> FALSE,
             message |-> AIMessage("Internal Error: No history.", << >>)]
       ELSE [request |-> ApiCallParams(cfg, valid_formatted_messages),
             raised |-> res.raised, message |-> res.message]

(***************************************************************************)
(* agent.py should_continue, lines 214-225                                 *)
(***************************************************************************)
should_continue_any_calls(state_messages) ==
    LET last_message == Last(state_messages)
    IN IF last_message.type = "ai" /\ last_message.tool_calls # << >>
       THEN "execute_tools"
       ELSE "__end__"

should_continue_by_name(state_messages) ==
    LET last_message == Last(state_messages)
    IN IF last_message.type = "ai" /\ last_message.tool_calls # << >>
       THEN IF \E i \in 1..Len(last_message.tool_calls) :
                    Truthy(last_message.tool_calls[i].name)
            THEN "execute_tools"
            ELSE "__end__"
       ELSE "__end__"

should_continue_id_and_name(state_messages) ==
    LET last_message == Last(state_messages)
    IN IF last_message.type = "ai" /\ last_message.tool_calls # << >>
       THEN IF \E i \in 1..Len(last_message.tool_calls) :
                    /\ Truthy(last_message.tool_calls[i].id)
                    /\ Truthy(last_message.tool_calls[i].name)
            THEN "execute_tools"
            ELSE "__end__"
       ELSE "__end__"

should_continue(state_messages) ==
    LET last_message == Last(state_messages)
    IN IF last_message.type = "ai" /\ last_message.tool_calls # << >>
       THEN IF \E i \in 1..Len(last_message.tool_calls) :
                    Truthy(last_message.tool_calls[i].id)
            THEN "execute_tools"
            ELSE "__end__"
       ELSE "__end__"

(***************************************************************************)
(* agent.py execute_tools, lines 164-211.  outcomes[i] says what the body   *)
(* of the tool of request i does when it is invoked: "ok" or "raise".       *)
(***************************************************************************)
ToolNotFound(tool_name) ==
    CASE tool_name = "nonexistent_tool" -> "Error: Tool 'nonexistent_tool' not found."
      [] OTHER -> "Error: Tool '?' not found."

ToolReturn(tool_name) ==
    CASE tool_name = "get_current_weather" ->
           "{\"location\": \"Jakarta\", \"temperature\": 30, \"unit\": \"celsius\"}"
      [] OTHER -> "{\"summary\": \"...\"}"

ToolRaise(tool_name) ==
    CASE tool_name = "get_current_weather" ->
           "Error executing tool get_current_weather: TypeError - unexpected keyword"
      [] OTHER -> "Error executing tool web_search: TypeError - unexpected keyword"

ToolCallResultNoLookup(tool_name, outcome) ==
    IF outcome = "ok" THEN ToolReturn(tool_name) ELSE ToolRaise(tool_name)

ToolCallResult(tool_name, outcome) ==
    IF tool_name \notin tool_executor_map
    THEN ToolNotFound(tool_name)
    ELSE IF outcome = "ok" THEN ToolReturn(tool_name) ELSE ToolRaise(tool_name)

ExecuteToolCallSkipsOnlyMissingId(tool_call, outcome) ==
    LET tool_name == tool_call.name
        tool_id == tool_call.id
    IN IF ~Truthy(tool_id)
       THEN << >>
       ELSE << ToolMessage(ToolCallResult(tool_name, outcome), tool_id, tool_name) >>

ExecuteToolCallErrorForMalformed(tool_call, outcome) ==
    LET tool_name == tool_call.name
        tool_id == tool_call.id
    IN IF ~Truthy(tool_name) \/ ~Truthy(tool_id)
       THEN << ToolMessage("Error: malformed tool call.", tool_id, tool_name) >>
       ELSE << ToolMessage(ToolCallResult(tool_name, outcome), tool_id, tool_name) >>

\* one pass of the for loop, lines 175-209: the ToolMessages of one request
ExecuteToolCall(tool_call, outcome) ==
    LET tool_name == tool_call.name
        tool_id == tool_call.id
    IN IF ~Truthy(tool_name) \/ ~Truthy(tool_id)
       THEN << >>
       ELSE << ToolMessage(ToolCallResult(tool_name, outcome), tool_id, tool_name) >>

RECURSIVE ExecuteToolCallsLastFirst(_, _, _)
ExecuteToolCallsLastFirst(tool_calls, outcomes, i) ==
    IF i > Len(tool_calls) THEN << >>
    ELSE ExecuteToolCallsLastFirst(tool_calls, outcomes, i + 1)
             \o ExecuteToolCall(tool_calls[i], outcomes[i])

RECURSIVE ExecuteToolCallsStopsOnRaise(_, _, _)
ExecuteToolCallsStopsOnRaise(tool_calls, outcomes, i) ==
    IF i > Len(tool_calls) THEN << >>
    ELSE ExecuteToolCall(tool_calls[i], outcomes[i])
             \o (IF /\ Truthy(tool_calls[i].name)
                    /\ Truthy(tool_calls[i].id)
                    /\ tool_calls[i].name \in tool_executor_map
                    /\ outcomes[i] = "raise"
                 THEN << >>
                 ELSE ExecuteToolCallsStopsOnRaise(tool_calls, outcomes, i + 1))

RECURSIVE ExecuteToolCalls(_, _, _)
ExecuteToolCalls(tool_calls, outcomes, i) ==
    IF i > Len(tool_calls) THEN << >>
    ELSE ExecuteToolCall(tool_calls[i], outcomes[i])
             \o ExecuteToolCalls(tool_calls, outcomes, i + 1)

execute_tools(state_messages, outcomes) ==
    LET last_message == Last(state_messages)
    IN IF last_message.type # "ai" \/ last_message.tool_calls = << >>
       THEN << >>
       ELSE ExecuteToolCalls(last_message.tool_calls, outcomes, 1)

\* lines 180-196: the requests of one pass whose tool function is called
\* (tool_function(**tool_args)): name and id present, name in the registry
InvokesTool(tool_call) ==
    /\ Truthy(tool_call.name)
    /\ Truthy(tool_call.id)
    /\ tool_call.name \in tool_executor_map

RECURSIVE InvokedCalls(_, _, _, _)
InvokedCalls(tool_calls, outcomes, step, i) ==
    IF i > Len(tool_calls) THEN << >>
    ELSE (IF InvokesTool(tool_calls[i])
          THEN << [step |-> step, index |-> i, id |-> tool_calls[i].id,
                   name |-> tool_calls[i].name, outcome |-> outcomes[i]] >>
          ELSE << >>)
             \o InvokedCalls(tool_calls, outcomes, step, i + 1)

\* the calls of tool functions one execution of execute_tools makes
ToolInvocations(state_messages, outcomes, step) ==
    LET last_message == Last(state_messages)
    IN IF last_message.type # "ai" \/ last_message.tool_calls = << >>
       THEN << >>
       ELSE InvokedCalls(last_message.tool_calls, outcomes, step, 1)

(***************************************************************************)
(* handlers.py _invoke_agent_and_respond, lines 155-168: the directive      *)
(* built from the user's profile.  A profile is a record whose fields are   *)
(* the keys the profile dict holds.  The template's text is fixed; the      *)
(* language name and the country are the formatted fields (state_province   *)
(* is formatted like the country and left out).                             *)
(***************************************************************************)
\* user_profile.get(key, default)
ProfileGet(user_profile, key, default) ==
    IF key \in DOMAIN user_profile THEN user_profile[key] ELSE default

DynamicSystemPrompt(user_profile) ==
    LET user_lang_code == ProfileGet(user_profile, "language", "en")
        user_lang_name == LANG_CODE_TO_NAME(user_lang_code)
        user_country == ProfileGet(user_profile, "country", "Southeast Asia")
    IN CASE user_country = "Southeast Asia" /\ user_lang_name = "English" ->
              "You are AgriSight Bot ... You MUST respond ONLY in English."
         [] user_country = "Southeast Asia" /\ user_lang_name = "Bahasa Indonesia" ->
              "You are AgriSight Bot ... You MUST respond ONLY in Bahasa Indonesia."
         [] user_country = "Southeast Asia" ->
              "You are AgriSight Bot ... You MUST respond ONLY in another language."
         [] user_country = "Malaysia" /\ user_lang_name = "English" ->
              "You are AgriSight Bot ... located in Malaysia ... You MUST respond ONLY in English."
         [] user_country = "Malaysia" /\ user_lang_name = "Bahasa Indonesia" ->
              "You are AgriSight Bot ... located in Malaysia ... You MUST respond ONLY in Bahasa Indonesia."
         [] user_country = "Malaysia" ->
              "You are AgriSight Bot ... located in Malaysia ... You MUST respond ONLY in another language."
         [] user_lang_name = "English" ->
              "You are AgriSight Bot ... located in another country ... You MUST respond ONLY in English."
         [] user_lang_name = "Bahasa Indonesia" ->
              "You are AgriSight Bot ... located in another country ... You MUST respond ONLY in Bahasa Indonesia."
         [] OTHER ->
              "You are AgriSight Bot ... located in another country ... You MUST respond ONLY in another language."

(***************************************************************************)
(* handlers.py, lines 170-201: history loading.  A stored history is        *)
(* [has |-> whether the key chat_history_dicts is in user_data, dicts].     *)
(***************************************************************************)
NoHistory == [has |-> FALSE, dicts |-> << >>]

MsgDict(role, content, tcs, id, n) ==
    [role |-> role, content |-> content, tool_calls |-> tcs,
     tool_call_id |-> id, name |-> n]

\* a load that keeps the directive text that was stored
LoadDictKeepsStoredDirective(i, msg_dict, dynamic_system_prompt) ==
    LET role == msg_dict.role
        content == msg_dict.content
    IN CASE i = 1 /\ role = "system" -> << SystemMessage(content) >>
         [] role = "user" -> << HumanMessage(content) >>
         [] role = "assistant" -> << AIMessage(content, msg_dict.tool_calls) >>
         [] role = "tool" ->
              IF Truthy(msg_dict.tool_call_id)
              THEN << ToolMessage(content, msg_dict.tool_call_id, msg_dict.name) >>
              ELSE << >>
         [] OTHER -> << >>

\* a load that rebuilds assistant messages without their requests
LoadDictDropsRequests(i, msg_dict, dynamic_system_prompt) ==
    LET role == msg_dict.role
        content == msg_dict.content
    IN CASE i = 1 /\ role = "system" -> << SystemMessage(dynamic_system_prompt) >>
         [] role = "user" -> << HumanMessage(content) >>
         [] role = "assistant" -> << AIMessage(content, << >>) >>
         [] role = "tool" ->
              IF Truthy(msg_dict.tool_call_id)
              THEN << ToolMessage(content, msg_dict.tool_call_id, msg_dict.name) >>
              ELSE << >>
         [] OTHER -> << >>

\* one pass of the for loop, lines 176-192: the messages of stored dict i
LoadDict(i, msg_dict, dynamic_system_prompt) ==
    LET role == msg_dict.role
        content == msg_dict.content
    IN CASE i = 1 /\ role = "system" -> << SystemMessage(dynamic_system_prompt) >>
         [] role = "user" -> << HumanMessage(content) >>
         [] role = "assistant" -> << AIMessage(content, msg_dict.tool_calls) >>
         [] role = "tool" ->
              IF Truthy(msg_dict.tool_call_id)
              THEN << ToolMessage(content, msg_dict.tool_call_id, msg_dict.name) >>
              ELSE << >>
         [] OTHER -> << >>

RECURSIVE LoadDicts(_, _, _)
LoadDicts(dicts, n, dynamic_system_prompt) ==
    IF n = 0 THEN << >>
    ELSE LoadDicts(dicts, n - 1, dynamic_system_prompt)
             \o LoadDict(n, dicts[n], dynamic_system_prompt)

LoadHistoryAlwaysPrepends(stored, dynamic_system_prompt) ==
    IF stored.has
    THEN << SystemMessage(dynamic_system_prompt) >>
             \o LoadDicts(stored.dicts, Len(stored.dicts), dynamic_system_prompt)
    ELSE << SystemMessage(dynamic_system_prompt) >>

LoadHistoryIgnoresStored(stored, dynamic_system_prompt) ==
    << SystemMessage(dynamic_system_prompt) >>

LoadHistory(stored, dynamic_system_prompt) ==
    IF stored.has
    THEN LET system_prompt_in_history ==
                 stored.dicts # << >> /\ stored.dicts[1].role = "system"
             loaded == LoadDicts(stored.dicts, Len(stored.dicts), dynamic_system_prompt)
         IN IF ~system_prompt_in_history
            THEN << SystemMessage(dynamic_system_prompt) >> \o loaded
            ELSE loaded
    ELSE << SystemMessage(dynamic_system_prompt) >>

\* lines 203-206: the new human message (none when the placeholder "..." results)
NewHumanMessages(user_message_text, image_bytes) ==
    LET new_human_message_content ==
            PyOr(user_message_text,
                 IF Truthy(image_bytes) THEN "Please analyze the image provided."
                 ELSE "...")
    IN IF new_human_message_content # "..."
       THEN << HumanMessage(new_human_message_content) >>
       ELSE << >>

(***************************************************************************)
(* handlers.py, lines 213-218: history trimming, with Python's slices       *)
(***************************************************************************)
\* s[:n], n >= 0
SliceTo(s, n) == SubSeq(s, 1, IF n < Len(s) THEN n ELSE Len(s))

\* s[-n:], n >= 1
SliceLast(s, n) == SubSeq(s, IF Len(s) - n + 1 > 1 THEN Len(s) - n + 1 ELSE 1, Len(s))

TrimHistoryOffByOne(current_history_objects) ==
    IF Len(current_history_objects) > max_history_len
    THEN SliceTo(current_history_objects, 1)
             \o SliceLast(current_history_objects, max_history_len)
    ELSE current_history_objects

TrimHistoryDropsOldest(current_history_objects) ==
    IF Len(current_history_objects) > max_history_len
    THEN SliceTo(current_history_objects, 1)
             \o SliceLast(current_history_objects, Len(current_history_objects) - 2)
    ELSE current_history_objects

TrimHistoryKeepsOldest(current_history_objects) ==
    IF Len(current_history_objects) > max_history_len
    THEN SliceTo(current_history_objects, max_history_len)
    ELSE current_history_objects

TrimHistory(current_history_objects) ==
    IF Len(current_history_objects) > max_history_len
    THEN SliceTo(current_history_objects, 1)
             \o SliceLast(current_history_objects, max_history_len - 1)
    ELSE current_history_objects

\* line 221: base64.b64encode(image_bytes).decode() if image_bytes else None
B64Encode(image_bytes) ==
    CASE image_bytes = "jpeg" -> "anBlZw=="
      [] OTHER -> None

(***************************************************************************)
(* handlers.py, lines 236-245: the text handed to the delivery layer       *)
(***************************************************************************)
ResponseTextChecksFirst(final_messages) ==
    IF final_messages # << >>
    THEN IF Head(final_messages).type = "ai"
         THEN Last(final_messages).content
         ELSE "Unexpected response format received from agent."
    ELSE "Sorry, I couldn't generate a response for that."

ResponseTextFirstAssistant(final_messages) ==
    IF final_messages # << >>
    THEN IF Last(final_messages).type = "ai"
         THEN final_messages[CHOOSE i \in 1..Len(final_messages) :
                                 /\ final_messages[i].type = "ai"
                                 /\ \A j \in 1..(i - 1) : final_messages[j].type # "ai"].content
         ELSE "Unexpected response format received from agent."
    ELSE "Sorry, I couldn't generate a response for that."

ResponseText(final_messages) ==
    IF final_messages # << >>
    THEN IF Last(final_messages).type = "ai"
         THEN Last(final_messages).content
         ELSE "Unexpected response format received from agent."
    ELSE "Sorry, I couldn't generate a response for that."

(***************************************************************************)
(* handlers.py, lines 247-265: the history saved back                       *)
(***************************************************************************)
RECURSIVE SaveMessages(_, _)
SaveMessages(final_messages, system_prompt_saved) ==
    IF final_messages = << >> THEN << >>
    ELSE LET msg == Head(final_messages)
             rest == Tail(final_messages)
         IN CASE msg.type = "system" ->
                   IF ~system_prompt_saved
                   THEN << MsgDict("system", msg.content, << >>, None, None) >>
                            \o SaveMessages(rest, TRUE)
                   ELSE SaveMessages(rest, system_prompt_saved)
              [] msg.type = "human" ->
                   << MsgDict("user", msg.content, << >>, None, None) >>
                       \o SaveMessages(rest, system_prompt_saved)
              [] msg.type = "ai" ->
                   << MsgDict("assistant", msg.content, msg.tool_calls, None, None) >>
                       \o SaveMessages(rest, system_prompt_saved)
              [] msg.type = "tool" ->
                   << MsgDict("tool", msg.content, << >>, msg.tool_call_id, msg.name) >>
                       \o SaveMessages(rest, system_prompt_saved)
              [] OTHER -> SaveMessages(rest, system_prompt_saved)

SaveHistory(final_messages) ==
    [has |-> TRUE, dicts |-> SaveMessages(final_messages, FALSE)]

(***************************************************************************)
(* State                                                                   *)
(***************************************************************************)
VARIABLES
    user_data,      \* user id -> the stored history (chat_history_dicts)
    profiles,       \* user id -> the user's profile
    pc,             \* where the turn in progress is: "idle", "call_llm",
                    \* "route", "execute_tools", "done", "raised"
    cur_user,       \* the user of the turn in progress
    messages,       \* AgentState.messages
    image_base64,   \* AgentState.image_base64
    loaded_len,     \* len(current_history_objects) before trimming
    llm_calls,      \* executions of call_llm in this turn
    appended,       \* messages the graph appended in this turn
    api_request,    \* the parameters of the last completion call
    backend,        \* what the last completion call did
    response_text,  \* response_text of the handler
    delivered,      \* the text given to send_long_message
    turns,          \* turns started so far
    replies,        \* what the backend did at each completion call of this turn
    tool_steps,     \* executions of execute_tools in this turn
    tool_log,       \* the tool functions execute_tools called in this turn
    update_queue,   \* the updates received and not yet handled
    conv_state,     \* user id -> state of onboarding_conversation
    sent,           \* user id -> last text sent to the user outside the agent's reply
    exc,            \* type name of the exception that left the agent invocation
    settings_state  \* user id -> state of settings_conversation

vars == << user_data, profiles, pc, cur_user, messages, image_base64, loaded_len,
           llm_calls, appended, api_request, backend, response_text, delivered,
           turns, replies, tool_steps, tool_log, update_queue, conv_state, sent, exc, settings_state >>

Users == {1, 2}

(***************************************************************************)
(* Bounds of the model                                                     *)
(***************************************************************************)
\* turns started in one behaviour of Spec
MaxTurns == 4
\* executions of call_llm in one turn
MaxRounds == 2
\* length of the histories SpecTrim builds
MaxTrimLen == 12
\* executions of call_llm in one invocation of the graph in SpecAgent
MaxAgentRounds == 2
\* updates received in one behaviour of SpecQueue
MaxUpdates == 3

(***************************************************************************)
(* Inputs                                                                  *)
(***************************************************************************)
\* handle_message: the text of the update, no image;
\* handle_photo: the caption (or its default) and the downloaded bytes
TurnInputs ==
    { [text |-> "Hi", image_bytes |-> None],
      [text |-> "Please analyze this crop image for diseases.", image_bytes |-> "jpeg"] }

Reply(content, raw_tool_calls) ==
    [kind |-> "reply", content |-> content, tool_calls |-> raw_tool_calls]

Raised(kind) == [kind |-> kind, content |-> None, tool_calls |-> << >>]

RawCall(id, n, arguments) == [id |-> id, name |-> n, arguments |-> arguments]

\* the outcomes of Spec: a final text, one well-formed request, a failure
SimpleOutcomes ==
    { Reply("Hello!", << >>),
      Reply(None, << RawCall("a1", "get_current_weather", GoodArguments) >>),
      Raised("Exception") }

\* the outcomes of SpecChat: a final text, a final reply without text
ChatOutcomes == { Reply("Hello!", << >>), Reply(None, << >>) }

\* the updates of SpecQueue: a text and a photo of user 1, a text of user 2
QueueUpdates ==
    { [user_id |-> 1, text |-> "Hi", image_bytes |-> None],
      [user_id |-> 1, text |-> "Please analyze this crop image for diseases.",
       image_bytes |-> "jpeg"],
      [user_id |-> 2, text |-> "Halo", image_bytes |-> None] }

\* the outcomes of SpecQueue: a final text, a failure
QueueOutcomes == { Reply("Hello!", << >>), Raised("Exception") }

\* the outcomes of SpecLive: a final text, a request without id, a
\* well-formed request, a request with id and no name, the two failures
LiveOutcomes ==
    { Reply("Hello!", << >>),
      Reply(None, << RawCall("", "get_current_weather", GoodArguments) >>),
      Reply(None, << RawCall("a1", "get_current_weather", GoodArguments) >>),
      Reply(None, << RawCall("a3", "", GoodArguments) >>),
      Raised("BadRequestError"),
      Raised("Exception") }

\* the raw tool calls of SpecLoop: well-formed, unknown tool, no id, no name,
\* undecodable arguments; a reply holds up to two different ones
RawCalls ==
    { RawCall("a1", "get_current_weather", GoodArguments),
      RawCall("a2", "nonexistent_tool", GoodArguments),
      RawCall("", "get_current_weather", GoodArguments),
      RawCall("a3", "", GoodArguments),
      RawCall("a4", "get_current_weather", BadArguments) }

RawCallLists ==
    { << >> } \cup { << c >> : c \in RawCalls }
              \cup { p \in { << c, d >> : c \in RawCalls, d \in RawCalls } :
                          p[1] # p[2] }

\* a reply has a text, or none, with up to one request, and no text with two
LoopOutcomes ==
    { Reply(c, l) : c \in {None, "Hello!"}, l \in {r \in RawCallLists : Len(r) <= 1} }
        \cup { Reply(None, l) : l \in RawCallLists }
        \cup { Raised("BadRequestError"), Raised("Exception") }

ToolOutcomes == {"ok", "raise"}

\* the raw tool calls of SpecAgent: two registered tools, an unknown tool,
\* no id, no name
AgentCalls ==
    { RawCall("a1", "get_current_weather", GoodArguments),
      RawCall("a5", "web_search", GoodArguments),
      RawCall("a2", "nonexistent_tool", GoodArguments),
      RawCall("", "get_current_weather", GoodArguments),
      RawCall("a3", "", GoodArguments) }

\* the replies with two calls: each kind of call before and after a
\* registered tool's
AgentCallPairs ==
    { << RawCall("a1", "get_current_weather", GoodArguments),
         RawCall("a5", "web_search", GoodArguments) >>,
      << RawCall("a2", "nonexistent_tool", GoodArguments),
         RawCall("a5", "web_search", GoodArguments) >>,
      << RawCall("a1", "get_current_weather", GoodArguments),
         RawCall("a2", "nonexistent_tool", GoodArguments) >>,
      << RawCall("", "get_current_weather", GoodArguments),
         RawCall("a1", "get_current_weather", GoodArguments) >>,
      << RawCall("a5", "web_search", GoodArguments),
         RawCall("a3", "", GoodArguments) >> }

\* a reply of SpecAgent: a final text, or one call, or two
AgentOutcomes ==
    { Reply("Hello!", << >>) }
        \cup { Reply(None, << c >>) : c \in AgentCalls }
        \cup { Reply(None, p) : p \in AgentCallPairs }

\* the histories agent_executor.ainvoke is given in SpecAgent: none, a
\* directive alone, a directive and a user message, two user messages
AgentHistories ==
    LET directive == SystemMessage(DynamicSystemPrompt([language |-> "en"]))
    IN { << >>,
         << directive >>,
         << directive, HumanMessage("Hi") >>,
         << directive, HumanMessage("Hi"), AIMessage("Hello!", << >>),
            HumanMessage("Please analyze this crop image for diseases.") >> }

(***************************************************************************)
(* Init: no stored history, both users with a profile, no turn in progress *)
(***************************************************************************)
Init ==
    /\ user_data = [u \in Users |-> NoHistory]
    /\ profiles = [u \in Users |-> [language |-> "en"]]
    /\ pc = "idle"
    /\ cur_user = 1
    /\ messages = << >>
    /\ image_base64 = None
    /\ loaded_len = 0
    /\ llm_calls = 0
    /\ appended = 0
    /\ api_request = NoRequest
    /\ backend = "none"
    /\ response_text = None
    /\ delivered = None
    /\ turns = 0
    /\ replies = << >>
    /\ tool_steps = 0
    /\ tool_log = << >>
    /\ update_queue = << >>
    /\ conv_state = [u \in Users |-> "END"]
    /\ sent = [u \in Users |-> None]
    /\ exc = None
    /\ settings_state = [u \in Users |-> "END"]

(***************************************************************************)
(* handlers.py _invoke_agent_and_respond, lines 153-229: up to the agent    *)
(* invocation                                                               *)
(***************************************************************************)
TurnStart(user_id, user_message_text, image_bytes, max_turns) ==
    /\ pc = "idle"
    /\ turns < max_turns
    /\ LET dynamic_system_prompt == DynamicSystemPrompt(profiles[user_id])
           new_human == NewHumanMessages(user_message_text, image_bytes)
           current_history_objects ==
               LoadHistory(user_data[user_id], dynamic_system_prompt) \o new_human
       IN IF new_human = << >> /\ current_history_objects = << >>
          THEN /\ delivered' = "Internal error: Cannot process empty request."
               /\ UNCHANGED << pc, messages, loaded_len, image_base64 >>
          ELSE /\ messages' = TrimHistory(current_history_objects)
               /\ loaded_len' = Len(current_history_objects)
               /\ image_base64' = B64Encode(image_bytes)
               /\ pc' = "call_llm"
               /\ delivered' = None
    /\ cur_user' = user_id
    /\ llm_calls' = 0
    /\ appended' = 0
    /\ api_request' = NoRequest
    /\ backend' = "none"
    /\ response_text' = None
    /\ turns' = turns + 1
    /\ replies' = << >>
    /\ tool_steps' = 0
    /\ tool_log' = << >>
    /\ exc' = None
    /\ UNCHANGED << user_data, profiles,
                    conv_state,
                    sent,
                    settings_state >>

\* a turn for an update handled as soon as it is received
StartTurn(user_id, user_message_text, image_bytes, max_turns) ==
    /\ TurnStart(user_id, user_message_text, image_bytes, max_turns)
    /\ UNCHANGED update_queue

(***************************************************************************)
(* The graph of build_agent_graph, lines 229-240: node call_llm, then the   *)
(* conditional edge should_continue, then node execute_tools and back.      *)
(* A node's returned messages are appended to the state (add_messages).     *)
(***************************************************************************)
\* agent.py, line 23: the reducer of AgentState.messages.  The messages a
\* node returns are new objects without id, which add_messages appends.
add_messages_replace(left, right) == right

add_messages(left, right) == left \o right

CallLLM(outcome, max_rounds) ==
    /\ pc = "call_llm"
    /\ llm_calls < max_rounds
    /\ LET r == call_llm(messages, image_base64, outcome)
       IN /\ api_request' = r.request
          /\ backend' = IF r.request = NoRequest THEN "none" ELSE outcome.kind
          /\ replies' = IF r.request = NoRequest THEN replies
                         ELSE Append(replies, outcome)
          /\ IF r.raised
             THEN /\ pc' = "raised"
                  /\ exc' = outcome.kind
                  /\ UNCHANGED << messages, appended >>
             ELSE /\ pc' = "route"
                  /\ messages' = add_messages(messages, << r.message >>)
                  /\ appended' = appended + 1
                  /\ exc' = exc
    /\ llm_calls' = llm_calls + 1
    /\ UNCHANGED << user_data, profiles, cur_user, image_base64, loaded_len,
                    response_text, delivered, turns, tool_steps, tool_log,
                    update_queue,
                    conv_state,
                    sent,
                    settings_state >>

ShouldContinue ==
    /\ pc = "route"
    /\ pc' = IF should_continue(messages) = "execute_tools"
             THEN "execute_tools" ELSE "done"
    /\ UNCHANGED << user_data, profiles, cur_user, messages, image_base64,
                    loaded_len, llm_calls, appended, api_request, backend,
                    response_text, delivered, turns, replies, tool_steps,
                    tool_log,
                    update_queue,
                    conv_state,
                    sent,
                    exc,
                    settings_state >>

ExecuteToolsBackToRouter(tool_outcomes) ==
    /\ pc = "execute_tools"
    /\ \E outcomes \in [1..Len(Last(messages).tool_calls) -> tool_outcomes] :
          LET tool_messages == execute_tools(messages, outcomes)
          IN /\ messages' = add_messages(messages, tool_messages)
             /\ appended' = appended + Len(tool_messages)
             /\ tool_log' = tool_log \o ToolInvocations(messages, outcomes, tool_steps + 1)
    /\ tool_steps' = tool_steps + 1
    /\ pc' = "route"
    /\ UNCHANGED << user_data, profiles, cur_user, image_base64, loaded_len,
                    llm_calls, api_request, backend, response_text, delivered,
                    turns, replies,
                    update_queue,
                    conv_state,
                    sent,
                    exc,
                    settings_state >>

ExecuteTools(tool_outcomes) ==
    /\ pc = "execute_tools"
    /\ \E outcomes \in [1..Len(Last(messages).tool_calls) -> tool_outcomes] :
          LET tool_messages == execute_tools(messages, outcomes)
          IN /\ messages' = add_messages(messages, tool_messages)
             /\ appended' = appended + Len(tool_messages)
             /\ tool_log' = tool_log \o ToolInvocations(messages, outcomes, tool_steps + 1)
    /\ tool_steps' = tool_steps + 1
    /\ pc' = "call_llm"
    /\ UNCHANGED << user_data, profiles, cur_user, image_base64, loaded_len,
                    llm_calls, api_request, backend, response_text, delivered,
                    turns, replies,
                    update_queue,
                    conv_state,
                    sent,
                    exc,
                    settings_state >>

\* handlers.py, line 274: the text for an exception of type type_name
CriticalErrorText(type_name) ==
    CASE type_name = "GraphRecursionError" ->
           "Sorry, a critical error occurred (GraphRecursionError). Please try again later."
      [] type_name = "RuntimeError" ->
           "Sorry, a critical error occurred (RuntimeError). Please try again later."
      [] OTHER ->
           "Sorry, a critical error occurred (Exception). Please try again later."

FinishTurnOneStoreForAll ==
    /\ pc \in {"done", "raised"}
    /\ LET final_messages == messages
           text == IF pc = "done"
                   THEN ResponseText(final_messages)
                   ELSE CriticalErrorText(exc)
       IN /\ response_text' = text
          /\ delivered' = PyOr(text, "...")
          /\ user_data' = IF pc = "done" /\ final_messages # << >>
                          THEN [u \in Users |-> SaveHistory(final_messages)]
                          ELSE user_data
    /\ pc' = "idle"
    /\ UNCHANGED << profiles, cur_user, messages, image_base64, loaded_len,
                    llm_calls, appended, api_request, backend, turns, replies,
                    tool_steps, tool_log,
                    update_queue,
                    conv_state,
                    sent,
                    exc,
                    settings_state >>

\* a handler that stores the messages it has also when the invocation raised
FinishTurnSavesOnRaise ==
    /\ pc \in {"done", "raised"}
    /\ LET final_messages == messages
           text == IF pc = "done"
                   THEN ResponseText(final_messages)
                   ELSE CriticalErrorText(exc)
       IN /\ response_text' = text
          /\ delivered' = PyOr(text, "...")
          /\ user_data' = IF final_messages # << >>
                          THEN [user_data EXCEPT ![cur_user] = SaveHistory(final_messages)]
                          ELSE user_data
    /\ pc' = "idle"
    /\ UNCHANGED << profiles, cur_user, messages, image_base64, loaded_len,
                    llm_calls, appended, api_request, backend, turns, replies,
                    tool_steps, tool_log, update_queue, conv_state, sent, exc,
                    settings_state >>

(***************************************************************************)
(* handlers.py _invoke_agent_and_respond, lines 236-277: after the agent    *)
(* invocation returned (pc = "done") or raised (pc = "raised")              *)
(***************************************************************************)
FinishTurn ==
    /\ pc \in {"done", "raised"}
    /\ LET final_messages == messages
           text == IF pc = "done"
                   THEN ResponseText(final_messages)
                   ELSE CriticalErrorText(exc)
       IN /\ response_text' = text
          /\ delivered' = PyOr(text, "...")
          /\ user_data' = IF pc = "done" /\ final_messages # << >>
                          THEN [user_data EXCEPT ![cur_user] = SaveHistory(final_messages)]
                          ELSE user_data
    /\ pc' = "idle"
    /\ UNCHANGED << profiles, cur_user, messages, image_base64, loaded_len,
                    llm_calls, appended, api_request, backend, turns, replies,
                    tool_steps, tool_log,
                    update_queue,
                    conv_state,
                    sent,
                    exc,
                    settings_state >>

(***************************************************************************)
(* Spec: the turns of one user, one after the other                        *)
(***************************************************************************)
Next ==
    \/ \E input \in TurnInputs : StartTurn(1, input.text, input.image_bytes, MaxTurns)
    \/ \E outcome \in SimpleOutcomes : CallLLM(outcome, MaxRounds)
    \/ ShouldContinue
    \/ ExecuteTools({"ok"})
    \/ FinishTurn

Spec == Init /\ [][Next]_vars

(***************************************************************************)
(* SpecLoop: one turn on a fresh history, against every shape of reply      *)
(***************************************************************************)
NextLoop ==
    \/ \E input \in TurnInputs : StartTurn(1, input.text, input.image_bytes, 1)
    \/ \E outcome \in LoopOutcomes : CallLLM(outcome, MaxRounds)
    \/ ShouldContinue
    \/ ExecuteTools(ToolOutcomes)
    \/ FinishTurn

SpecLoop == Init /\ [][NextLoop]_vars

(***************************************************************************)
(* SpecLive: one turn on a fresh history in which every backend call and    *)
(* every tool call returns or raises: a node that is entered completes, and *)
(* so do the router and the handler                                         *)
(***************************************************************************)
NextLive ==
    \/ \E input \in TurnInputs : StartTurn(1, input.text, input.image_bytes, 1)
    \/ \E outcome \in LiveOutcomes : CallLLM(outcome, MaxRounds)
    \/ ShouldContinue
    \/ ExecuteTools(ToolOutcomes)
    \/ FinishTurn

SpecLive ==
    /\ Init
    /\ [][NextLive]_vars
    /\ WF_vars(\E outcome \in LiveOutcomes : CallLLM(outcome, MaxRounds))
    /\ WF_vars(ShouldContinue)
    /\ WF_vars(ExecuteTools(ToolOutcomes))
    /\ WF_vars(FinishTurn)

(***************************************************************************)
(* SpecTrim: the trimming of lines 213-218 applied to histories of every    *)
(* length up to MaxTrimLen, and applied again to its own result             *)
(***************************************************************************)
InitTrim ==
    /\ user_data = [u \in Users |-> NoHistory]
    /\ profiles = [u \in Users |-> [language |-> "en"]]
    /\ pc = "build"
    /\ cur_user = 1
    /\ messages \in { << >>, << SystemMessage(DynamicSystemPrompt([language |-> "en"])) >> }
    /\ image_base64 = None
    /\ loaded_len = 0
    /\ llm_calls = 0
    /\ appended = 0
    /\ api_request = NoRequest
    /\ backend = "none"
    /\ response_text = None
    /\ delivered = None
    /\ turns = 0
    /\ replies = << >>
    /\ tool_steps = 0
    /\ tool_log = << >>
    /\ update_queue = << >>
    /\ conv_state = [u \in Users |-> "END"]
    /\ sent = [u \in Users |-> None]
    /\ exc = None
    /\ settings_state = [u \in Users |-> "END"]

TrimAppend(msg) ==
    /\ pc = "build"
    /\ Len(messages) < MaxTrimLen
    /\ messages' = Append(messages, msg)
    /\ UNCHANGED << user_data, profiles, pc, cur_user, image_base64, loaded_len,
                    llm_calls, appended, api_request, backend, response_text,
                    delivered, turns, replies, tool_steps, tool_log,
                    update_queue,
                    conv_state,
                    sent,
                    exc,
                    settings_state >>

TrimApply ==
    /\ pc \in {"build", "trimmed"}
    /\ messages' = TrimHistory(messages)
    /\ loaded_len' = IF pc = "build" THEN Len(messages) ELSE loaded_len
    /\ pc' = "trimmed"
    /\ UNCHANGED << user_data, profiles, cur_user, image_base64, llm_calls,
                    appended, api_request, backend, response_text, delivered,
                    turns, replies, tool_steps, tool_log,
                    update_queue,
                    conv_state,
                    sent,
                    exc,
                    settings_state >>

NextTrim ==
    \/ \E msg \in {HumanMessage("Hi"), AIMessage("Hello!", << >>)} : TrimAppend(msg)
    \/ TrimApply

SpecTrim == InitTrim /\ [][NextTrim]_vars

(***************************************************************************)
(* SpecChat: the turns of one user against a backend that answers with a    *)
(* text or with no text, and never asks for a tool                          *)
(***************************************************************************)
NextChat ==
    \/ \E input \in TurnInputs : StartTurn(1, input.text, input.image_bytes, MaxTurns)
    \/ \E outcome \in ChatOutcomes : CallLLM(outcome, MaxRounds)
    \/ ShouldContinue
    \/ FinishTurn

SpecChat == Init /\ [][NextChat]_vars

(***************************************************************************)
(* SpecQueue: updates of two users arrive at any time and wait in the       *)
(* application's update queue; main.py builds the Application without       *)
(* concurrent_updates and registers blocking handlers, so the next update   *)
(* is handled when the handler of the one before has returned.              *)
(***************************************************************************)
InitQueue ==
    /\ user_data = [u \in Users |-> NoHistory]
    /\ profiles = [u \in Users |-> [language |-> IF u = 1 THEN "en" ELSE "id"]]
    /\ pc = "idle"
    /\ cur_user = 1
    /\ messages = << >>
    /\ image_base64 = None
    /\ loaded_len = 0
    /\ llm_calls = 0
    /\ appended = 0
    /\ api_request = NoRequest
    /\ backend = "none"
    /\ response_text = None
    /\ delivered = None
    /\ turns = 0
    /\ replies = << >>
    /\ tool_steps = 0
    /\ tool_log = << >>
    /\ update_queue = << >>
    /\ conv_state = [u \in Users |-> "END"]
    /\ sent = [u \in Users |-> None]
    /\ exc = None
    /\ settings_state = [u \in Users |-> "END"]

\* main.py, line 60: run_polling puts every update it fetches in the queue
ReceiveUpdate(update, max_updates) ==
    /\ Len(update_queue) + turns < max_updates
    /\ update_queue' = Append(update_queue, update)
    /\ UNCHANGED << user_data, profiles, pc, cur_user, messages, image_base64,
                    loaded_len, llm_calls, appended, api_request, backend,
                    response_text, delivered, turns, replies, tool_steps,
                    tool_log,
                    conv_state,
                    sent,
                    exc,
                    settings_state >>

\* main.py, lines 42 and 55-60: the oldest waiting update is given to its
\* handler once no handler is running
ProcessUpdate(max_updates) ==
    /\ update_queue # << >>
    /\ TurnStart(Head(update_queue).user_id, Head(update_queue).text,
                 Head(update_queue).image_bytes, max_updates)
    /\ update_queue' = Tail(update_queue)

NextQueue ==
    \/ \E update \in QueueUpdates : ReceiveUpdate(update, MaxUpdates)
    \/ ProcessUpdate(MaxUpdates)
    \/ \E outcome \in QueueOutcomes : CallLLM(outcome, MaxRounds)
    \/ ShouldContinue
    \/ FinishTurn

SpecQueue == InitQueue /\ [][NextQueue]_vars

(***************************************************************************)
(* SpecAgent: one invocation of the graph (agent_executor.ainvoke) on the   *)
(* state its caller supplies: a history and an image, or none               *)
(***************************************************************************)
InitAgent ==
    /\ user_data = [u \in Users |-> NoHistory]
    /\ profiles = [u \in Users |-> [language |-> "en"]]
    /\ pc = "call_llm"
    /\ cur_user = 1
    /\ messages \in AgentHistories
    /\ image_base64 \in {None, B64Encode("jpeg")}
    /\ loaded_len = Len(messages)
    /\ llm_calls = 0
    /\ appended = 0
    /\ api_request = NoRequest
    /\ backend = "none"
    /\ response_text = None
    /\ delivered = None
    /\ turns = 1
    /\ replies = << >>
    /\ tool_steps = 0
    /\ tool_log = << >>
    /\ update_queue = << >>
    /\ conv_state = [u \in Users |-> "END"]
    /\ sent = [u \in Users |-> None]
    /\ exc = None
    /\ settings_state = [u \in Users |-> "END"]

NextAgent ==
    \/ \E outcome \in AgentOutcomes : CallLLM(outcome, MaxAgentRounds)
    \/ ShouldContinue
    \/ ExecuteTools(ToolOutcomes)

SpecAgent == InitAgent /\ [][NextAgent]_vars

(***************************************************************************)
(* Properties                                                              *)
(***************************************************************************)
\* the index of the last assistant message of a history (0: none)
LastAIIndex(msgs) ==
    LET A == {i \in 1..Len(msgs) : msgs[i].type = "ai"}
    IN IF A = {} THEN 0 ELSE CHOOSE i \in A : \A j \in A : j <= i

\* the invocation requests of the last assistant message
Requests(msgs) ==
    IF LastAIIndex(msgs) = 0 THEN << >> ELSE msgs[LastAIIndex(msgs)].tool_calls

\* the messages that follow the last assistant message
Results(msgs) == SubSeq(msgs, LastAIIndex(msgs) + 1, Len(msgs))

\* a tool-execution step has just run
AfterToolStep == pc = "call_llm" /\ llm_calls > 0

NonEmpty(x) == x # None /\ x # ""

HasIdRequest(msg) ==
    msg.type = "ai" /\ \E i \in 1..Len(msg.tool_calls) : NonEmpty(msg.tool_calls[i].id)

BackendFailed == backend \in {"BadRequestError", "Exception"}

\* C1 (stated as claimed): the control loop reaches DONE within the maximum
\* number of rounds: once MaxRounds model replies have been routed, the loop
\* is not sent to the tool-execution step again.
C1_DoneWithinMaxRounds ==
    llm_calls >= MaxRounds => pc # "execute_tools"

\* C2 (stated as claimed): after every tool-execution step, the tool-result
\* messages appended are as many as the invocation requests of the last
\* assistant message, and the i-th result carries the i-th request's id.
C2_ResultPerRequest ==
    AfterToolStep =>
        /\ Len(Results(messages)) = Len(Requests(messages))
        /\ \A i \in 1..Len(Results(messages)) :
               /\ i <= Len(Requests(messages))
               /\ Results(messages)[i].tool_call_id = Requests(messages)[i].id

\* C2 (amended): after every tool-execution step, the tool-result messages
\* appended correspond one-to-one, in the same order, to the invocation
\* requests of the last assistant message that have a non-empty id and a
\* non-empty name; a request whose id or name is empty gets no result.
C2_ResultPerValidRequest ==
    AfterToolStep =>
        LET valid == SelectSeq(Requests(messages),
                               LAMBDA tc : NonEmpty(tc.id) /\ NonEmpty(tc.name))
            results == Results(messages)
        IN /\ Len(results) = Len(valid)
           /\ \A i \in 1..Len(results) :
                  /\ results[i].type = "tool"
                  /\ results[i].tool_call_id = valid[i].id
                  /\ results[i].name = valid[i].name

\* C2 witness: a tool step over two requests of which only one is well formed
C2_Witness ==
    /\ AfterToolStep
    /\ Len(Requests(messages)) = 2
    /\ Len(Results(messages)) = 1

\* C3: after each model reply is appended, the router goes to the
\* tool-execution step exactly when the appended assistant message has a
\* request with a non-empty id, and to DONE in every other case.
C3_RouterRule ==
    [][ pc = "route" =>
          /\ Last(messages).type = "ai"
          /\ (HasIdRequest(Last(messages)) => pc' = "execute_tools")
          /\ (~HasIdRequest(Last(messages)) => pc' = "done") ]_vars

\* C3 witness: the router ended the turn at requests none of which has an id
C3_Witness ==
    /\ pc = "done"
    /\ Last(messages).tool_calls # << >>
    /\ ~HasIdRequest(Last(messages))

\* C4 (stated as claimed): the turn ends at an assistant message exactly when
\* its request list is empty: DONE only with an empty list, and the
\* tool-execution step only with a non-empty one.
C4_EndsIffNoRequests ==
    /\ pc = "done" => Last(messages).tool_calls = << >>
    /\ pc = "execute_tools" => Last(messages).tool_calls # << >>

\* C4 (amended): the turn ends at an assistant message exactly when the
\* message has no request with a non-empty id: an empty list always ends the
\* turn, and a non-empty list ends it exactly when none of its requests has a
\* non-empty id.
C4_EndsIffNoIdRequest ==
    /\ pc = "done" =>
           /\ Last(messages).type = "ai"
           /\ \A i \in 1..Len(Last(messages).tool_calls) :
                  ~NonEmpty(Last(messages).tool_calls[i].id)
    /\ pc = "execute_tools" =>
           /\ Last(messages).type = "ai"
           /\ Last(messages).tool_calls # << >>
           /\ \E i \in 1..Len(Last(messages).tool_calls) :
                  NonEmpty(Last(messages).tool_calls[i].id)

\* C4 witness: a turn that went on at a list holding a request without id
C4_Witness ==
    /\ pc = "execute_tools"
    /\ Len(Last(messages).tool_calls) = 2
    /\ ~NonEmpty(Last(messages).tool_calls[1].id)

\* C5: when the completion call fails in any round, call_llm appends exactly
\* one assistant message with text and no requests, the router goes to DONE
\* from there, nothing more is appended in the turn (no further model call,
\* no tool step), no exception leaves the loop, and the handler delivers the
\* message's text.
C5_FailureEndsTurn ==
    /\ [](BackendFailed =>
            /\ pc \in {"route", "done", "idle"}
            /\ Last(messages).type = "ai"
            /\ NonEmpty(Last(messages).content)
            /\ Last(messages).tool_calls = << >>
            /\ (pc = "idle" => /\ response_text = Last(messages).content
                               /\ delivered = response_text))
    /\ [][ (pc = "call_llm" /\ BackendFailed') =>
               /\ messages' = Append(messages, Last(messages'))
               /\ pc' = "route" ]_vars
    /\ [][ (BackendFailed /\ pc = "route") => pc' = "done" ]_vars
    /\ [][ (BackendFailed /\ pc # "idle") =>
               /\ messages' = messages
               /\ llm_calls' = llm_calls
               /\ BackendFailed' ]_vars

\* C5 witness: a failure in the second round, delivered to the user
C5_Witness ==
    /\ backend = "Exception"
    /\ llm_calls = 2
    /\ pc = "idle"

\* C6: every model call of a turn with an image goes to the vision model
\* with neither tools nor tool_choice; every model call of a turn without an
\* image goes to the text/tool model with the whole tool schema list and
\* tool_choice "auto".
C6_BackendSelection ==
    api_request # NoRequest =>
        IF NonEmpty(image_base64)
        THEN /\ api_request.model = VISION_MODEL_NAME
             /\ "tools" \notin api_request.keys
             /\ "tool_choice" \notin api_request.keys
        ELSE /\ api_request.model = TEXT_TOOL_MODEL_NAME
             /\ "tools" \in api_request.keys
             /\ api_request.tools = available_tools_definitions
             /\ "tool_choice" \in api_request.keys
             /\ api_request.tool_choice = "auto"

\* C6 witness: the second model call of a turn with an image
C6_Witness ==
    /\ NonEmpty(image_base64)
    /\ llm_calls = 2
    /\ api_request.model = VISION_MODEL_NAME

\* C7: the history handed to the loop and the history stored for the user
\* hold at most one directive, and a directive is only at index 0.
C7_DirectiveSingleton ==
    /\ \A i \in 1..Len(messages) : messages[i].type = "system" => i = 1
    /\ \A u \in Users : \A i \in 1..Len(user_data[u].dicts) :
           user_data[u].dicts[i].role = "system" => i = 1

\* C7 witness: a stored history after a turn that loaded a stored directive
\* and trimmed
C7_Witness ==
    /\ pc = "idle"
    /\ loaded_len > max_history_len
    /\ user_data[1].dicts[1].role = "system"
    /\ messages[1].type = "system"

\* C8 (stated as claimed): in the history handed to the model at every
\* backend call, every tool-result message follows, with only tool-result
\* messages in between, an assistant message holding a request with the
\* result's request id.
C8_ResultsHaveTheirRequest ==
    pc = "call_llm" =>
        \A i \in 1..Len(messages) :
            messages[i].type = "tool" =>
                \E j \in 1..(i - 1) :
                    /\ messages[j].type = "ai"
                    /\ \A k \in (j + 1)..(i - 1) : messages[k].type = "tool"
                    /\ \E r \in 1..Len(messages[j].tool_calls) :
                           messages[j].tool_calls[r].id = messages[i].tool_call_id

\* C9 (stated as claimed): after every completed turn the stored history
\* holds at most max_history_len messages.
C9_StoredWithinMax ==
    \A u \in Users : Len(user_data[u].dicts) <= max_history_len

\* C9 (amended): after every completed turn the stored history holds at most
\* max_history_len messages plus the messages the loop appended in that turn.
C9_StoredWithinMaxPlusAppended ==
    (pc = "idle" /\ turns > 0) =>
        Len(user_data[cur_user].dicts) <= max_history_len + appended

\* C9 witness: a completed turn that trimmed and stored more than the maximum
C9_Witness ==
    /\ pc = "idle"
    /\ loaded_len > max_history_len
    /\ Len(user_data[cur_user].dicts) > max_history_len

\* C10: trimming a history of at most max_history_len messages changes
\* nothing, the result of a trim has at most max_history_len messages, and
\* trimming the result of a trim changes nothing.
C10_TrimIdempotent ==
    /\ Len(messages) <= max_history_len => TrimHistory(messages) = messages
    /\ Len(TrimHistory(messages)) <= max_history_len
    /\ TrimHistory(TrimHistory(messages)) = TrimHistory(messages)
    /\ pc = "trimmed" => Len(messages) <= max_history_len

\* C10 witness: a history longer than the maximum has been trimmed
C10_Witness ==
    /\ pc = "trimmed"
    /\ loaded_len > max_history_len
    /\ Len(messages) = max_history_len

\* C11: when a turn's history (the loaded history and the new user message)
\* is longer than max_history_len, the history handed to the loop is the
\* directive of index 0 followed by the most recent max_history_len - 1
\* messages in their order: only the oldest messages after the directive are
\* dropped, and the new user message is the last one kept.
C11_TrimKeepsDirectiveAndRecent ==
    [][ (pc = "idle" /\ pc' = "call_llm" /\ loaded_len' > max_history_len) =>
          LET loaded == LoadHistory(user_data[cur_user'],
                                    DynamicSystemPrompt(profiles[cur_user']))
              n == Len(loaded)
          IN /\ loaded_len' = n + 1
             /\ Len(messages') = max_history_len
             /\ messages'[1] = loaded[1]
             /\ messages'[1].type = "system"
             /\ \A k \in 2..(max_history_len - 1) :
                    messages'[k] = loaded[n - (max_history_len - 1) + k]
             /\ messages'[max_history_len].type = "human"
             /\ messages'[max_history_len].content \in {input.text : input \in TurnInputs}
      ]_vars

\* C11 witness: a turn has just started on a history longer than the maximum
C11_Witness ==
    /\ pc = "call_llm"
    /\ llm_calls = 0
    /\ loaded_len > max_history_len
    /\ messages[1].type = "system"
    /\ Last(messages).type = "human"
    /\ \E i \in 2..(Len(messages) - 1) : messages[i].type = "tool"

\* the argument payload of a raw request is one json.loads accepts
Decodable(raw_call) == raw_call.arguments # BadArguments

\* the text of a backend reply as the assistant message holds it
ReplyText(reply) == IF reply.content = None THEN "" ELSE reply.content

\* C12: the assistant message built from a backend reply holds the reply's
\* requests with a decodable argument payload, in the reply's order, and none
\* of the requests with an undecodable one; when no request remains the turn
\* goes to DONE and the text returned is the text that came with the reply.
C12_UndecodableRequestsDropped ==
    (replies # << >> /\ Last(replies).kind = "reply") =>
        LET kept == SelectSeq(Last(replies).tool_calls, Decodable)
            m == messages[LastAIIndex(messages)]
        IN /\ Len(m.tool_calls) = Len(kept)
           /\ \A i \in 1..Len(kept) :
                  /\ m.tool_calls[i].id = kept[i].id
                  /\ m.tool_calls[i].name = kept[i].name
                  /\ m.tool_calls[i].args = [location |-> "Jakarta"]
           /\ kept = << >> =>
                  /\ pc \in {"route", "done", "idle"}
                  /\ m = Last(messages)
                  /\ m.content = ReplyText(Last(replies))
                  /\ pc = "idle" => response_text = ReplyText(Last(replies))

\* C12 witness: a first reply with an undecodable request followed by a
\* well-formed one was followed by a tool step, and a second reply whose only
\* request is undecodable ended the turn with the reply's text
C12_Witness ==
    /\ pc = "idle"
    /\ Len(replies) = 2
    /\ replies[1].tool_calls = << RawCall("a4", "get_current_weather", BadArguments),
                                  RawCall("a1", "get_current_weather", GoodArguments) >>
    /\ replies[2] = Reply("Hello!", << RawCall("a4", "get_current_weather", BadArguments) >>)
    /\ tool_steps = 1
    /\ response_text = "Hello!"

\* a request execute_tools processes: its id and its name are non-empty
WellFormed(request) == NonEmpty(request.id) /\ NonEmpty(request.name)

\* the calls of tool functions logged for request i of tool step `step`
LoggedCalls(log, step, i) ==
    {k \in 1..Len(log) : log[k].step = step /\ log[k].index = i}

\* C13: in every tool-execution step, a request with a non-empty id and a
\* non-empty name that names no registered tool makes no tool function run
\* and gets exactly one tool-result message, with the request's id and name,
\* whose body is the "not found" error naming the tool; the step raises
\* nothing and the loop goes to another model call.
C13_UnknownToolNotFound ==
    [][ pc = "execute_tools" =>
          /\ pc' = "call_llm"
          /\ \A i \in 1..Len(Last(messages).tool_calls) :
                LET request == Last(messages).tool_calls[i]
                IN (WellFormed(request)
                      /\ request.name \notin {"get_current_weather", "web_search"}) =>
                     /\ LoggedCalls(tool_log', tool_steps', i) = {}
                     /\ Cardinality({j \in (Len(messages) + 1)..Len(messages') :
                                        messages'[j].tool_call_id = request.id}) = 1
                     /\ \E j \in (Len(messages) + 1)..Len(messages') :
                            /\ messages'[j].type = "tool"
                            /\ messages'[j].tool_call_id = request.id
                            /\ messages'[j].name = request.name
                            /\ request.name = "nonexistent_tool" =>
                                   messages'[j].content =
                                       "Error: Tool 'nonexistent_tool' not found."
      ]_vars

\* C13 witness: a tool step ran on a request for an unknown tool followed by
\* a request for a registered one
C13_Witness ==
    /\ pc = "call_llm"
    /\ tool_steps = 1
    /\ Len(Requests(messages)) = 2
    /\ Requests(messages)[1].name = "nonexistent_tool"
    /\ Requests(messages)[2].name = "web_search"
    /\ Len(Results(messages)) = 2
    /\ Results(messages)[1].content = "Error: Tool 'nonexistent_tool' not found."
    /\ Results(messages)[1].tool_call_id = "a2"
    /\ Len(tool_log) = 1
    /\ tool_log[1].name = "web_search"

\* C14: in every tool-execution step, when the body of a tool raises, the
\* step appends for that request a tool-result message whose body is the
\* error string naming the tool and the exception's class, the requests after
\* it are still processed (each well-formed one gets its result, each one
\* naming a registered tool has its tool called), nothing is raised and the
\* loop goes back to the model call.
C14_ToolFailureBecomesResult ==
    [][ pc = "execute_tools" =>
          /\ pc' = "call_llm"
          /\ \A k \in 1..Len(tool_log') :
                (tool_log'[k].step = tool_steps' /\ tool_log'[k].outcome = "raise") =>
                  /\ \E j \in (Len(messages) + 1)..Len(messages') :
                        /\ messages'[j].type = "tool"
                        /\ messages'[j].tool_call_id = tool_log'[k].id
                        /\ messages'[j].name = tool_log'[k].name
                        /\ messages'[j].content =
                             (IF tool_log'[k].name = "get_current_weather"
                              THEN "Error executing tool get_current_weather: TypeError - unexpected keyword"
                              ELSE "Error executing tool web_search: TypeError - unexpected keyword")
                  /\ \A i \in (tool_log'[k].index + 1)..Len(Last(messages).tool_calls) :
                        LET request == Last(messages).tool_calls[i]
                        IN WellFormed(request) =>
                             /\ \E j \in (Len(messages) + 1)..Len(messages') :
                                    messages'[j].tool_call_id = request.id
                             /\ request.name \in {"get_current_weather", "web_search"} =>
                                    LoggedCalls(tool_log', tool_steps', i) # {}
      ]_vars

\* C14 witness: the first of two registered tools raised, the second returned
C14_Witness ==
    /\ pc = "call_llm"
    /\ tool_steps = 1
    /\ Len(tool_log) = 2
    /\ tool_log[1].outcome = "raise"
    /\ tool_log[2].outcome = "ok"
    /\ Len(Results(messages)) = 2
    /\ Results(messages)[1].content =
           "Error executing tool get_current_weather: TypeError - unexpected keyword"
    /\ Results(messages)[2].content = "{\"summary\": \"...\"}"

\* C15: in every tool-execution step, a request whose id or name is empty
\* makes no tool function run and gets no tool-result message; the other
\* requests of the same assistant message each get theirs, nothing is raised
\* and the loop goes back to the model call.
C15_MalformedRequestDropped ==
    [][ pc = "execute_tools" =>
          LET requests == Last(messages).tool_calls
              new == (Len(messages) + 1)..Len(messages')
          IN /\ pc' = "call_llm"
             /\ \A i \in 1..Len(requests) :
                   IF WellFormed(requests[i])
                   THEN \E j \in new : /\ messages'[j].type = "tool"
                                       /\ messages'[j].tool_call_id = requests[i].id
                                       /\ messages'[j].name = requests[i].name
                   ELSE /\ LoggedCalls(tool_log', tool_steps', i) = {}
                        /\ \A j \in new :
                               \/ messages'[j].tool_call_id # requests[i].id
                               \/ messages'[j].name # requests[i].name
             /\ Cardinality(new) =
                    Cardinality({i \in 1..Len(requests) : WellFormed(requests[i])})
      ]_vars

\* C15 witness: a tool step ran on a request without id followed by a
\* well-formed one, and appended the second one's result only
C15_Witness ==
    /\ pc = "call_llm"
    /\ tool_steps = 1
    /\ Len(Requests(messages)) = 2
    /\ Requests(messages)[1].id = ""
    /\ Requests(messages)[2].id = "a1"
    /\ Len(Results(messages)) = 1
    /\ Results(messages)[1].tool_call_id = "a1"
    /\ Len(tool_log) = 1
    /\ tool_log[1].index = 2

\* C16: when the loop is invoked on an empty history with no image, the
\* model step makes no backend call and appends the assistant message
\* "Internal Error: No history." with no request, and the router then ends
\* the turn.
C16_EmptyHistoryNoBackendCall ==
    /\ [][ (pc = "call_llm" /\ pc' # "call_llm"
               /\ messages = << >> /\ ~NonEmpty(image_base64)) =>
             /\ api_request' = NoRequest
             /\ replies' = replies
             /\ backend' = "none"
             /\ messages' = << AIMessage("Internal Error: No history.", << >>) >>
             /\ pc' = "route"
         ]_vars
    /\ [][ (pc = "route" /\ pc' # "route" /\ llm_calls = 1 /\ replies = << >>) =>
             /\ pc' = "done"
             /\ messages' = << AIMessage("Internal Error: No history.", << >>) >>
         ]_vars

\* C16 witness: an invocation on an empty history without image has ended
C16_Witness ==
    /\ pc = "done"
    /\ image_base64 = None
    /\ loaded_len = 0
    /\ llm_calls = 1
    /\ replies = << >>
    /\ api_request = NoRequest
    /\ messages = << AIMessage("Internal Error: No history.", << >>) >>

\* the payload entries that carry an image
ImageCarriers(payload) == {i \in 1..Len(payload) : payload[i].image_url # None}

\* C17: in the payload of every backend call made with an image, exactly one
\* entry carries the image.  When the history holds a user message it is the
\* entry of the most recent one, with that message's text, and the payload
\* has one entry per history message; when it holds none it is one user entry
\* appended after the history's entries, with the text "Analyze this image.".
\* Every other entry is what it is without an image.  Without an image no
\* entry carries one.
C17_ImageOnLastUserMessage ==
    (pc = "route" /\ api_request # NoRequest) =>
        LET hist == SubSeq(messages, 1, Len(messages) - 1)
            payload == api_request.messages
            plain == FormatMessages(hist)
            H == {i \in 1..Len(hist) : hist[i].type = "human"}
        IN IF ~NonEmpty(image_base64)
           THEN ImageCarriers(payload) = {} /\ payload = plain
           ELSE /\ Cardinality(ImageCarriers(payload)) = 1
                /\ \A i \in ImageCarriers(payload) :
                      /\ payload[i].role = "user"
                      /\ payload[i].image_url = "data:image/jpeg;base64,anBlZw=="
                      /\ payload[i].tool_calls = << >>
                      /\ IF H # {}
                         THEN /\ Len(payload) = Len(hist)
                              /\ i \in H
                              /\ \A j \in H : j <= i
                              /\ payload[i].content = hist[i].content
                         ELSE /\ Len(payload) = Len(hist) + 1
                              /\ i = Len(payload)
                              /\ payload[i].content = "Analyze this image."
                /\ \A i \in 1..Len(hist) :
                      i \notin ImageCarriers(payload) => payload[i] = plain[i]

\* C17 witness: a backend call with an image on a history with two user
\* messages, the image on the entry of the second one
C17_Witness ==
    /\ pc = "route"
    /\ NonEmpty(image_base64)
    /\ Len(api_request.messages) = 4
    /\ api_request.messages[2].role = "user"
    /\ api_request.messages[2].image_url = None
    /\ api_request.messages[4].role = "user"
    /\ api_request.messages[4].image_url # None

\* a backend reply that carries a request with a non-empty id and name
CarriesWellFormed(reply) ==
    /\ reply.kind = "reply"
    /\ \E i \in 1..Len(reply.tool_calls) : WellFormed(reply.tool_calls[i])

\* ... whose argument payload is decodable as well
CarriesExecutable(reply) ==
    /\ reply.kind = "reply"
    /\ \E i \in 1..Len(reply.tool_calls) :
           WellFormed(reply.tool_calls[i]) /\ Decodable(reply.tool_calls[i])

\* the tool-result messages right after the assistant message of index j
ResultBlock(msgs, j) ==
    {i \in (j + 1)..Len(msgs) : \A k \in (j + 1)..i : msgs[k].type = "tool"}

\* every assistant message's well-formed requests have exactly one result
\* each, with the request's id, and there is no other tool-result message
OneResultPerExecutedRequest(msgs) ==
    \A j \in 1..Len(msgs) :
        msgs[j].type = "ai" =>
            /\ \A r \in 1..Len(msgs[j].tool_calls) :
                   WellFormed(msgs[j].tool_calls[r]) =>
                       Cardinality({i \in ResultBlock(msgs, j) :
                           msgs[i].tool_call_id = msgs[j].tool_calls[r].id}) = 1
            /\ Cardinality(ResultBlock(msgs, j)) =
                   Cardinality({r \in 1..Len(msgs[j].tool_calls) :
                                    WellFormed(msgs[j].tool_calls[r])})

\* what C18 says of a turn whose replies so far are k replies that continue
\* the loop and then one without request
CountsOfFinishedLoop ==
    /\ pc \in {"route", "done", "idle"}
    /\ llm_calls = Len(replies)
    /\ tool_steps = Len(replies) - 1
    /\ Cardinality({i \in 1..Len(messages) : messages[i].type = "tool"}) =
           Cardinality(UNION {ResultBlock(messages, j) :
                                 j \in {a \in 1..Len(messages) : messages[a].type = "ai"}})
    /\ OneResultPerExecutedRequest(messages)
    /\ pc = "idle" => response_text = ReplyText(Last(replies))

\* C18 (stated as claimed): while every reply of the turn carries a request
\* with a non-empty id and name the loop has not ended; and when k such
\* replies are followed by a reply without request, the loop has made k + 1
\* backend calls and k tool steps, the history holds exactly one tool result
\* per executed request, with its id, and the text returned is the text of
\* reply k + 1.
C18_RoundsBackendCallsToolSteps ==
    /\ (replies # << >> /\ \A i \in 1..Len(replies) : CarriesWellFormed(replies[i])) =>
           pc \in {"route", "execute_tools", "call_llm"}
    /\ (/\ replies # << >>
        /\ \A i \in 1..(Len(replies) - 1) : CarriesWellFormed(replies[i])
        /\ Last(replies).kind = "reply"
        /\ Last(replies).tool_calls = << >>) => CountsOfFinishedLoop

\* C18 (amended): the same, for replies that carry a request with a non-empty
\* id and name and a decodable argument payload.
C18_RoundsOfExecutableRequests ==
    /\ (replies # << >> /\ \A i \in 1..Len(replies) : CarriesExecutable(replies[i])) =>
           pc \in {"route", "execute_tools", "call_llm"}
    /\ (/\ replies # << >>
        /\ \A i \in 1..(Len(replies) - 1) : CarriesExecutable(replies[i])
        /\ Last(replies).kind = "reply"
        /\ Last(replies).tool_calls = << >>) => CountsOfFinishedLoop

\* C18 witness: a turn of one tool round on two requests and a final reply
C18_Witness ==
    /\ pc = "idle"
    /\ Len(replies) = 2
    /\ Len(replies[1].tool_calls) = 2
    /\ \A i \in 1..2 : WellFormed(replies[1].tool_calls[i])
                          /\ Decodable(replies[1].tool_calls[i])
    /\ replies[2] = Reply("Hello!", << >>)
    /\ llm_calls = 2
    /\ tool_steps = 1
    /\ Cardinality({i \in 1..Len(messages) : messages[i].type = "tool"}) = 2
    /\ response_text = "Hello!"

\* the last message of the history is the assistant message the last model
\* step built from what the backend did
LastIsLastModelStepMessage ==
    LET m == Last(messages)
        r == Last(replies)
    IN /\ replies # << >>
       /\ Len(replies) = llm_calls
       /\ m.type = "ai"
       /\ LastAIIndex(messages) = Len(messages)
       /\ IF r.kind = "reply"
          THEN /\ m.content = ReplyText(r)
               /\ Len(m.tool_calls) = Len(SelectSeq(r.tool_calls, Decodable))
          ELSE /\ m.tool_calls = << >>
               /\ m.content = (IF r.kind = "BadRequestError"
                               THEN BadRequestContent(api_request.model)
                               ELSE UnexpectedErrorContent(api_request.model))

\* C19 (stated as claimed): whenever the loop has reached DONE the last
\* message of the history is the assistant message the last model step
\* appended, the handler does not take its branch for another kind of last
\* message, and the text handed to the delivery layer is that message's text.
C19_FinalTextDelivered ==
    /\ pc = "done" => LastIsLastModelStepMessage
    /\ (pc = "idle" /\ turns > 0) =>
           /\ LastIsLastModelStepMessage
           /\ response_text = Last(messages).content
           /\ response_text # "Unexpected response format received from agent."
           /\ delivered = Last(messages).content

\* C19 (amended): the same, the text handed to the delivery layer being the
\* message's text when it is not empty and "..." when it is.
C19_FinalTextOrPlaceholderDelivered ==
    /\ pc = "done" => LastIsLastModelStepMessage
    /\ (pc = "idle" /\ turns > 0) =>
           /\ LastIsLastModelStepMessage
           /\ response_text = Last(messages).content
           /\ response_text # "Unexpected response format received from agent."
           /\ delivered = (IF Last(messages).content = ""
                           THEN "..." ELSE Last(messages).content)

\* C19 witness: a turn ended after a tool round on a final reply without
\* text, and "..." was handed over
C19_Witness ==
    /\ pc = "idle"
    /\ tool_steps = 1
    /\ Last(replies) = Reply(None, << >>)
    /\ Last(messages).type = "ai"
    /\ response_text = ""
    /\ delivered = "..."

\* C20 (stated as claimed): every entry of the payload of a backend call has
\* a non-empty text content or at least one tool call.
C20_NoEmptyPayloadEntry ==
    api_request # NoRequest =>
        \A i \in 1..Len(api_request.messages) :
            \/ api_request.messages[i].content \notin {"", None, Absent}
            \/ api_request.messages[i].tool_calls # << >>

\* the stored messages of role `role` of user u
StoredOfRole(u, role) ==
    Cardinality({i \in 1..Len(user_data[u].dicts) : user_data[u].dicts[i].role = role})

TextsOf(u) == {update.text : update \in {q \in QueueUpdates : q.user_id = u}}

DirectiveOf(u) ==
    IF u = 1 THEN "You are AgriSight Bot ... You MUST respond ONLY in English."
    ELSE "You are AgriSight Bot ... You MUST respond ONLY in Bahasa Indonesia."

\* a stored history is one a user's turns produce when no other user exists:
\* the user's directive, then the user's texts, each followed by a reply
OwnHistory(u, dicts) ==
    dicts # << >> =>
        /\ dicts[1].role = "system"
        /\ dicts[1].content = DirectiveOf(u)
        /\ Len(dicts) % 2 = 1
        /\ \A i \in 2..Len(dicts) :
               IF i % 2 = 0
               THEN dicts[i].role = "user" /\ dicts[i].content \in TextsOf(u)
               ELSE dicts[i].role = "assistant" /\ dicts[i].tool_calls = << >>

C23_ToolsRunInRequestOrder ==
    [][ pc = "execute_tools" =>
          LET requests == Last(messages).tool_calls
              answered == SelectSeq(requests, WellFormed)
              new == SubSeq(messages', Len(messages) + 1, Len(messages'))
              calls == SubSeq(tool_log', Len(tool_log) + 1, Len(tool_log'))
          IN /\ pc' = "call_llm"
             /\ SubSeq(messages', 1, Len(messages)) = messages
             /\ SubSeq(tool_log', 1, Len(tool_log)) = tool_log
             /\ Len(new) = Len(answered)
             /\ \A i \in 1..Len(new) :
                    /\ new[i].type = "tool"
                    /\ new[i].tool_call_id = answered[i].id
                    /\ new[i].name = answered[i].name
             /\ \A a \in 1..Len(calls) :
                    /\ calls[a].step = tool_steps'
                    /\ calls[a].outcome \in {"ok", "raise"}
                    /\ calls[a].index \in 1..Len(requests)
                    /\ calls[a].id = requests[calls[a].index].id
                    /\ \A b \in (a + 1)..Len(calls) : calls[a].index < calls[b].index
      ]_vars

\* C23 witness: two registered tools were called in one step, the first
\* request's before the second's, and their results appended in that order
C23_Witness ==
    /\ pc = "call_llm"
    /\ tool_steps = 1
    /\ Len(Requests(messages)) = 2
    /\ Len(tool_log) = 2
    /\ tool_log[1].id = "a1" /\ tool_log[1].index = 1
    /\ tool_log[2].id = "a5" /\ tool_log[2].index = 2
    /\ Len(Results(messages)) = 2
    /\ Results(messages)[1].tool_call_id = "a1"
    /\ Results(messages)[2].tool_call_id = "a5"

\* C24: every model step and every tool-execution step leaves the messages
\* that were in the history where they were, unchanged and in their order,
\* and adds its own after them: one assistant message for a model step, only
\* tool-result messages for a tool-execution step.
C24_HistoryGrowsByAppending ==
    [][ (pc \in {"call_llm", "execute_tools"} /\ pc' # pc) =>
          /\ Len(messages') >= Len(messages)
          /\ SubSeq(messages', 1, Len(messages)) = messages
          /\ pc = "call_llm" =>
                 /\ Len(messages') = Len(messages) + 1
                 /\ Last(messages').type = "ai"
          /\ pc = "execute_tools" =>
                 \A i \in (Len(messages) + 1)..Len(messages') :
                     messages'[i].type = "tool"
      ]_vars

\* C24 witness: a model step, a tool step that appended two results and a
\* second model step have run on the history of a turn
C24_Witness ==
    /\ pc = "route"
    /\ llm_calls = 2
    /\ tool_steps = 1
    /\ appended = 4
    /\ Len(messages) = loaded_len + 4
    /\ messages[loaded_len].type = "human"
    /\ messages[loaded_len + 1].type = "ai"
    /\ messages[loaded_len + 2].type = "tool"

\* C25: the steps of a turn alternate, a model call first: the loop is
\* entered at the model call; the router runs only right after a model call;
\* a tool-execution step runs only right after the router that followed a
\* model call, and the step after it is a model call; the turn ends only
\* from the router; so the tool steps of a turn number its model calls, or
\* one less, and never two tool steps run without a model call in between.
C25_StepsAlternate ==
    /\ [][ /\ (pc = "idle" /\ pc' # "idle") =>
                 (pc' = "call_llm" /\ llm_calls' = 0 /\ tool_steps' = 0)
           /\ (pc # "route" /\ pc' = "route") =>
                 (pc = "call_llm" /\ llm_calls' = llm_calls + 1
                    /\ tool_steps' = tool_steps)
           /\ (pc # "execute_tools" /\ pc' = "execute_tools") => pc = "route"
           /\ (pc = "execute_tools" /\ pc' # "execute_tools") =>
                 (pc' = "call_llm" /\ tool_steps' = tool_steps + 1
                    /\ llm_calls' = llm_calls)
           /\ (pc # "done" /\ pc' = "done") => pc = "route"
           /\ (pc = "call_llm" /\ pc' # "call_llm") => pc' = "route"
         ]_vars
    /\ [](/\ pc = "call_llm" => tool_steps = llm_calls
          /\ pc \in {"route", "execute_tools", "done"} => llm_calls = tool_steps + 1)

\* C25 witness: a turn ended after model call, tool step, model call
C25_Witness ==
    /\ pc = "done"
    /\ llm_calls = 2
    /\ tool_steps = 1
    /\ Last(messages).type = "ai"
    /\ messages[Len(messages) - 1].type = "tool"

\* the last backend call failed, or its reply has no request with an id
NoIdReply ==
    /\ replies # << >>
    /\ \/ Last(replies).kind # "reply"
       \/ \A i \in 1..Len(Last(replies).tool_calls) :
              ~NonEmpty(Last(replies).tool_calls[i].id)

\* C26: when every backend call and tool call returns or raises, a round
\* whose backend call fails or returns a reply with no request carrying a
\* non-empty id ends the turn: the loop is eventually at DONE, and the step
\* that follows the model step of that round is the one to DONE, with no
\* model call, no tool step and no message in between.
C26_NoIdReplyEndsTurn ==
    /\ (pc = "route" /\ NoIdReply) ~> (pc = "done" /\ NoIdReply)
    /\ [][ (pc = "route" /\ NoIdReply) =>
             /\ pc' = "done"
             /\ llm_calls' = llm_calls
             /\ tool_steps' = tool_steps
             /\ messages' = messages
             /\ replies' = replies
         ]_vars

\* C26 witness: a second round ended the turn on a reply whose only request
\* has no id
C26_Witness ==
    /\ pc = "done"
    /\ llm_calls = 2
    /\ tool_steps = 1
    /\ Last(replies) = Reply(None, << RawCall("", "get_current_weather", GoodArguments) >>)
    /\ Len(Last(messages).tool_calls) = 1

\* C27 (stated as claimed): in a turn with an image the loop never is at the
\* tool-execution step and no tool function is called.
C27_NoToolInImageTurn ==
    NonEmpty(image_base64) =>
        /\ pc # "execute_tools"
        /\ tool_steps = 0
        /\ tool_log = << >>

\* C28 (stated as claimed): the payload of a call to the vision backend has
\* no tool schema, no assistant entry with tool calls and no tool entry.
C28_NoToolContentForVision ==
    (api_request # NoRequest /\ api_request.model = VISION_MODEL_NAME) =>
        /\ "tools" \notin api_request.keys
        /\ "tool_choice" \notin api_request.keys
        /\ \A i \in 1..Len(api_request.messages) :
               /\ api_request.messages[i].tool_calls = << >>
               /\ api_request.messages[i].role # "tool"

\* C29 (stated as claimed): every tool-execution step appends at least one
\* tool-result message, so the model call after it sees a history that ends
\* in a tool result.
C29_ToolStepAppendsResult ==
    /\ [][ (pc = "execute_tools" /\ pc' # "execute_tools") =>
             Len(messages') > Len(messages) ]_vars
    /\ [](AfterToolStep => Last(messages).type = "tool")

(***************************************************************************)
(* Onboarding: user_profile.py and handlers.py lines 86-106, 280-343,       *)
(* 350-359.  Here a profile is a record whose fields are the keys the       *)
(* profile dict holds, and DOMAIN profiles is the set of users that have a  *)
(* profile.                                                                 *)
(***************************************************************************)
\* user_profile.py update_user_profile: create the profile if needed, then
\* dict.update(kwargs)
update_user_profile(user_id, profs, kwargs) ==
    IF user_id \in DOMAIN profs
    THEN [profs EXCEPT ![user_id] = kwargs @@ profs[user_id]]
    ELSE (user_id :> kwargs) @@ profs

\* user_profile.py is_onboarding_complete
is_onboarding_complete(user_id, profs) ==
    LET profile == IF user_id \in DOMAIN profs THEN profs[user_id] ELSE << >>
    IN "language" \in DOMAIN profile /\ "region" \in DOMAIN profile

\* query.data.split('_')[-1] for the callback data of the two keyboards
LastPart(data) ==
    CASE data = "onboard_lang_en" -> "en"
      [] data = "onboard_lang_id" -> "id"
      [] data = "onboard_lang_other" -> "other"
      [] data = "onboard_country_ID" -> "ID"
      [] data = "onboard_country_OTHER" -> "OTHER"

\* handlers.py line 100: country_map.get(chosen_country_code, "Other")
country_map(code) ==
    CASE code = "ID" -> "Indonesia"
      [] code = "MY" -> "Malaysia"
      [] code = "PH" -> "Philippines"
      [] code = "SG" -> "Singapore"
      [] code = "TH" -> "Thailand"
      [] code = "VN" -> "Vietnam"
      [] OTHER -> "Other"

\* the texts the handlers send (formatted fields left out)
WelcomeBackText == "Welcome back! Send /settings to change preferences."
SelectLanguageText == "Let's set up preferences. Select language:"
SelectCountryText == "Now, select country:"
TypeStateText == "Finally, type state/province:"
SetupCompleteText == "Setup complete! How can I help?"
CancelledText == "Onboarding cancelled. /start to try again."
RefusalText == "Please use /start to complete setup."
PhotoRefusalText == "Please use /start to complete setup before sending photos."
DownloadFailedText == "Sorry, I couldn't download the image you sent. Please try again."

\* the rest of the state, which the onboarding handlers leave alone
TurnVars == << pc, cur_user, messages, image_base64, loaded_len, llm_calls,
               appended, api_request, backend, response_text, delivered, turns,
               replies, tool_steps, tool_log, update_queue, exc, settings_state >>

\* handlers.py start, lines 86-93; entry point of onboarding_conversation,
\* so it handles /start only when the user is in no onboarding state
start(user_id, first_name) ==
    /\ pc = "idle"
    /\ conv_state[user_id] = "END"
    /\ LET profs == IF user_id \notin DOMAIN profiles
                    THEN update_user_profile(user_id, profiles, [name |-> first_name])
                    ELSE profiles
       IN /\ profiles' = profs
          /\ IF is_onboarding_complete(user_id, profs)
             THEN /\ sent' = [sent EXCEPT ![user_id] = WelcomeBackText]
                  /\ user_data' = [user_data EXCEPT ![user_id] = NoHistory]
                  /\ conv_state' = [conv_state EXCEPT ![user_id] = "END"]
             ELSE /\ sent' = [sent EXCEPT ![user_id] = SelectLanguageText]
                  /\ user_data' = user_data
                  /\ conv_state' = [conv_state EXCEPT ![user_id] = "ONBOARD_LANG"]
    /\ UNCHANGED TurnVars

\* handlers.py onboard_ask_language_callback, lines 94-98
onboard_ask_language_callback(user_id, data) ==
    /\ pc = "idle"
    /\ conv_state[user_id] = "ONBOARD_LANG"
    /\ LET chosen_lang_code == LastPart(data)
       IN profiles' = update_user_profile(user_id, profiles,
                          [language |-> IF chosen_lang_code = "other"
                                        THEN "en" ELSE chosen_lang_code])
    /\ sent' = [sent EXCEPT ![user_id] = SelectCountryText]
    /\ conv_state' = [conv_state EXCEPT ![user_id] = "ONBOARD_COUNTRY"]
    /\ UNCHANGED user_data
    /\ UNCHANGED TurnVars

\* handlers.py onboard_ask_country_callback, lines 99-101
onboard_ask_country_callback(user_id, data) ==
    /\ pc = "idle"
    /\ conv_state[user_id] = "ONBOARD_COUNTRY"
    /\ LET chosen_country_name == country_map(LastPart(data))
       IN profiles' = update_user_profile(user_id, profiles,
                          [country |-> chosen_country_name])
    /\ sent' = [sent EXCEPT ![user_id] = TypeStateText]
    /\ conv_state' = [conv_state EXCEPT ![user_id] = "ONBOARD_STATE"]
    /\ UNCHANGED user_data
    /\ UNCHANGED TurnVars

\* handlers.py onboard_ask_state_province, lines 102-104
onboard_ask_state_province(user_id, state_province_text) ==
    /\ pc = "idle"
    /\ conv_state[user_id] = "ONBOARD_STATE"
    /\ profiles' = update_user_profile(user_id, profiles,
                       [state_province |-> state_province_text])
    /\ sent' = [sent EXCEPT ![user_id] = SetupCompleteText]
    /\ user_data' = [user_data EXCEPT ![user_id] = NoHistory]
    /\ conv_state' = [conv_state EXCEPT ![user_id] = "END"]
    /\ UNCHANGED TurnVars

\* handlers.py onboard_cancel, lines 105-106: the fallback of every state
onboard_cancel(user_id) ==
    /\ pc = "idle"
    /\ conv_state[user_id] # "END"
    /\ sent' = [sent EXCEPT ![user_id] = CancelledText]
    /\ conv_state' = [conv_state EXCEPT ![user_id] = "END"]
    /\ UNCHANGED << user_data, profiles >>
    /\ UNCHANGED TurnVars

\* handlers.py handle_message, lines 280-301.  A text that is no command
\* reaches it unless one of the two conversations, registered before it
\* (main.py:56-59), takes it: onboarding_conversation in state ONBOARD_STATE,
\* settings_conversation in state CHANGE_STATE.
handle_message(user_id, message_text, max_turns) ==
    /\ pc = "idle"
    /\ conv_state[user_id] # "ONBOARD_STATE"
    /\ settings_state[user_id] # "CHANGE_STATE"
    /\ IF user_id \notin DOMAIN profiles \/ ~is_onboarding_complete(user_id, profiles)
       THEN /\ sent' = [sent EXCEPT ![user_id] = RefusalText]
            /\ UNCHANGED << user_data, profiles, conv_state >>
            /\ UNCHANGED TurnVars
       ELSE /\ TurnStart(user_id, message_text, None, max_turns)
            /\ UNCHANGED update_queue

\* handlers.py handle_photo, lines 305-343; `downloaded` is whether the
\* download of the photo succeeded
handle_photo(user_id, caption, photo_bytes, downloaded, max_turns) ==
    /\ pc = "idle"
    /\ IF user_id \notin DOMAIN profiles \/ ~is_onboarding_complete(user_id, profiles)
       THEN /\ sent' = [sent EXCEPT ![user_id] = PhotoRefusalText]
            /\ UNCHANGED << user_data, profiles, conv_state >>
            /\ UNCHANGED TurnVars
       ELSE IF ~downloaded
            THEN /\ sent' = [sent EXCEPT ![user_id] = DownloadFailedText]
                 /\ UNCHANGED << user_data, profiles, conv_state >>
                 /\ UNCHANGED TurnVars
            ELSE /\ TurnStart(user_id,
                              PyOr(caption, "Please analyze this crop image for diseases."),
                              photo_bytes, max_turns)
                 /\ UNCHANGED update_queue

(***************************************************************************)
(* SpecOnboard: user 1 is new, user 2 has a profile from the profile file   *)
(* (main.py:47-49) that holds the keys language and region.  Both send      *)
(* /start, press the buttons, type, send texts and photos.                  *)
(***************************************************************************)
MaxOnboardTurns == 1

LoadedProfile == [name |-> "Budi", language |-> "id", region |-> "Jawa Barat"]

InitOnboard ==
    /\ user_data = [u \in Users |-> NoHistory]
    /\ profiles = (2 :> LoadedProfile)
    /\ pc = "idle"
    /\ cur_user = 1
    /\ messages = << >>
    /\ image_base64 = None
    /\ loaded_len = 0
    /\ llm_calls = 0
    /\ appended = 0
    /\ api_request = NoRequest
    /\ backend = "none"
    /\ response_text = None
    /\ delivered = None
    /\ turns = 0
    /\ replies = << >>
    /\ tool_steps = 0
    /\ tool_log = << >>
    /\ update_queue = << >>
    /\ conv_state = [u \in Users |-> "END"]
    /\ sent = [u \in Users |-> None]
    /\ exc = None
    /\ settings_state = [u \in Users |-> "END"]

LanguageButtons == { "onboard_lang_en", "onboard_lang_id", "onboard_lang_other" }
CountryButtons == { "onboard_country_ID", "onboard_country_OTHER" }

NextOnboard ==
    \/ \E u \in Users : start(u, IF u = 1 THEN "Ani" ELSE "Budi")
    \/ \E u \in Users, data \in LanguageButtons : onboard_ask_language_callback(u, data)
    \/ \E u \in Users, data \in CountryButtons : onboard_ask_country_callback(u, data)
    \/ \E u \in Users : onboard_ask_state_province(u, "Jawa Barat")
    \/ \E u \in Users : onboard_cancel(u)
    \/ \E u \in Users : handle_message(u, "Hi", MaxOnboardTurns)
    \/ \E u \in Users, caption \in { None, "What is this?" }, downloaded \in BOOLEAN :
          handle_photo(u, caption, "jpeg", downloaded, MaxOnboardTurns)
    \/ \E outcome \in ChatOutcomes : CallLLM(outcome, MaxRounds)
    \/ ShouldContinue
    \/ FinishTurn

SpecOnboard == InitOnboard /\ [][NextOnboard]_vars

\* C30 (stated as claimed): a user who was sent "Setup complete" at the end
\* of the onboarding flow is onboarded (is_onboarding_complete holds), and a
\* text or photo of that user is not answered with the refusal to use /start.
C30_OnboardedAfterSetupComplete ==
    /\ [](\A u \in Users :
            sent[u] = SetupCompleteText => is_onboarding_complete(u, profiles))
    /\ [][ \A u \in Users :
             sent[u] = SetupCompleteText =>
                 sent'[u] \notin { RefusalText, PhotoRefusalText } ]_vars

(***************************************************************************)
(* handlers.py, lines 233-235: agent_executor.ainvoke raises.  Nothing in   *)
(* the nodes lets an exception out, so the exception comes from the graph   *)
(* runtime, which may abort the invocation at any step (for instance a loop *)
(* that is still running at its step limit).  The state of the aborted      *)
(* invocation is lost to the handler; line 272 catches the exception.       *)
(***************************************************************************)
AgentInvocationRaises(type_name) ==
    /\ pc \in {"call_llm", "route", "execute_tools"}
    /\ pc' = "raised"
    /\ exc' = type_name
    /\ UNCHANGED << user_data, profiles, cur_user, messages, image_base64,
                    loaded_len, llm_calls, appended, api_request, backend,
                    response_text, delivered, turns, replies, tool_steps,
                    tool_log, update_queue, conv_state, sent,
                    settings_state >>

(***************************************************************************)
(* SpecAbort: the turns of one user, any of which the graph runtime may     *)
(* abort                                                                    *)
(***************************************************************************)
MaxAbortTurns == 2

AbortOutcomes ==
    { Reply("Hello!", << >>),
      Reply(None, << RawCall("a1", "get_current_weather", GoodArguments) >>) }

ExceptionTypes == { "GraphRecursionError", "RuntimeError" }

NextAbort ==
    \/ \E input \in TurnInputs : StartTurn(1, input.text, input.image_bytes, MaxAbortTurns)
    \/ \E outcome \in AbortOutcomes : CallLLM(outcome, MaxRounds)
    \/ ShouldContinue
    \/ ExecuteTools({"ok"})
    \/ \E type_name \in ExceptionTypes : AgentInvocationRaises(type_name)
    \/ FinishTurn

SpecAbort == Init /\ [][NextAbort]_vars

\* C31: when the agent invocation raised, the handler ends the turn without
\* touching the stored history and sends the critical-error text naming the
\* exception's type; and no step before the handler's ending changes the
\* stored history, so what is stored after an aborted turn is what was
\* stored before it (the turn's user message is not in it).
C31_AbortedTurnLeavesHistory ==
    [][ /\ pc # "done" => user_data' = user_data
        /\ pc = "raised" =>
              /\ pc' = "idle"
              /\ user_data' = user_data
              /\ response_text' = CriticalErrorText(exc)
              /\ delivered' = CriticalErrorText(exc)
              /\ delivered' \notin { None, "", "..." } ]_vars

\* C31 witness: a first turn was stored (directive, user, assistant), the
\* second turn's loop ran a tool step and was aborted at its second model
\* call; the stored history is still the first turn's
C31_Witness ==
    /\ pc = "idle" /\ turns = 2 /\ exc = "GraphRecursionError"
    /\ tool_steps = 1 /\ llm_calls = 1
    /\ Len(messages) = 6
    /\ Len(user_data[1].dicts) = 3
    /\ delivered = "Sorry, a critical error occurred (GraphRecursionError). Please try again later."

\* the two directives a history is loaded with below
Directives ==
    { DynamicSystemPrompt([language |-> "en"]), DynamicSystemPrompt([language |-> "id"]) }

\* C32: the history stored at the end of a turn that ended normally, loaded
\* with any directive, is the sequence of messages the turn ended with (same
\* types, texts, requests, request ids and tool names, in the same order,
\* none skipped) but for the directive's text; and the history the next turn
\* hands to the loop is that sequence with the new user message, trimmed.
C32_SaveLoadRoundTrip ==
    /\ [](\A directive \in Directives :
            (pc = "idle" /\ exc = None /\ user_data[cur_user].has) =>
                LoadHistory(user_data[cur_user], directive)
                    = << SystemMessage(directive) >> \o Tail(messages))
    /\ [][ (pc = "idle" /\ exc = None /\ pc' = "call_llm" /\ user_data[cur_user'].has) =>
             messages' = TrimHistory(
                 << SystemMessage(DynamicSystemPrompt(profiles[cur_user'])) >>
                     \o Tail(messages) \o << Last(messages') >>) ]_vars

\* C32 witness: the second turn starts on a loaded history that holds the
\* first turn's request, its tool result with id and tool name, and the
\* final text
C32_Witness ==
    /\ pc = "call_llm" /\ turns = 2 /\ llm_calls = 0
    /\ Len(messages) = 6
    /\ messages[3].type = "ai" /\ Len(messages[3].tool_calls) = 1
    /\ messages[3].tool_calls[1].id = "a1"
    /\ messages[4].type = "tool" /\ messages[4].tool_call_id = "a1"
    /\ messages[4].name = "get_current_weather"
    /\ messages[5].type = "ai" /\ messages[5].content = "Hello!"
    /\ messages[6].type = "human"

(***************************************************************************)
(* Settings: handlers.py lines 109-141 and settings_conversation, lines     *)
(* 362-372.  settings_state is the user's state in that conversation.       *)
(***************************************************************************)
\* query.data.split('_')[-1] for the callback data of the settings keyboards
SettingsLastPart(data) ==
    CASE data = "setting_select_lang_en" -> "en"
      [] data = "setting_select_lang_id" -> "id"
      [] data = "setting_select_lang_other" -> "other"
      [] data = "setting_select_country_MY" -> "MY"
      [] data = "setting_select_country_OTHER" -> "OTHER"

\* the texts the settings handlers send (formatted fields left out)
CompleteSetupFirstText == "Complete setup via /start first."
SettingsText == "Settings: ... Change?"
SelectNewLanguageText == "Select new language:"
SelectNewCountryText == "Select new country:"
TypeNewStateText == "Type new state/province:"
SettingsCancelledText == "Cancelled."
InvalidCancelledText == "Invalid. Cancelled."
LanguageUpdatedText == "Language updated."
CountryUpdatedText == "Country updated. Type new state/province:"
StateUpdatedText == "State/Province updated."

\* the rest of the state, which the settings handlers leave alone
SettingsFrame == << pc, cur_user, messages, image_base64, loaded_len, llm_calls,
                    appended, api_request, backend, response_text, delivered,
                    turns, replies, tool_steps, tool_log, update_queue, exc,
                    conv_state >>

\* handlers.py settings_start, lines 109-113; entry point of
\* settings_conversation
settings_start(user_id) ==
    /\ pc = "idle"
    /\ settings_state[user_id] = "END"
    /\ IF ~is_onboarding_complete(user_id, profiles)
       THEN /\ sent' = [sent EXCEPT ![user_id] = CompleteSetupFirstText]
            /\ settings_state' = [settings_state EXCEPT ![user_id] = "END"]
       ELSE /\ sent' = [sent EXCEPT ![user_id] = SettingsText]
            /\ settings_state' = [settings_state EXCEPT ![user_id] = "SELECT_SETTING"]
    /\ UNCHANGED << user_data, profiles >>
    /\ UNCHANGED SettingsFrame

\* handlers.py settings_select_action_callback, lines 115-121
settings_select_action_callback(user_id, action) ==
    /\ pc = "idle"
    /\ settings_state[user_id] = "SELECT_SETTING"
    /\ LET next == CASE action = "setting_change_lang" ->
                          << SelectNewLanguageText, "CHANGE_LANG" >>
                     [] action = "setting_change_country" ->
                          << SelectNewCountryText, "CHANGE_COUNTRY" >>
                     [] action = "setting_change_state" ->
                          << TypeNewStateText, "CHANGE_STATE" >>
                     [] action = "setting_cancel" ->
                          << SettingsCancelledText, "END" >>
                     [] OTHER -> << InvalidCancelledText, "END" >>
       IN /\ sent' = [sent EXCEPT ![user_id] = next[1]]
          /\ settings_state' = [settings_state EXCEPT ![user_id] = next[2]]
    /\ UNCHANGED << user_data, profiles >>
    /\ UNCHANGED SettingsFrame

\* handlers.py settings_receive_language_callback, lines 123-126
settings_receive_language_callback(user_id, data) ==
    /\ pc = "idle"
    /\ settings_state[user_id] = "CHANGE_LANG"
    /\ LET chosen_lang_code == SettingsLastPart(data)
           lang_to_save == IF chosen_lang_code = "other" THEN "en" ELSE chosen_lang_code
       IN profiles' = update_user_profile(user_id, profiles, [language |-> lang_to_save])
    /\ sent' = [sent EXCEPT ![user_id] = LanguageUpdatedText]
    /\ user_data' = [user_data EXCEPT ![user_id] = NoHistory]
    /\ settings_state' = [settings_state EXCEPT ![user_id] = "END"]
    /\ UNCHANGED SettingsFrame

\* handlers.py settings_receive_country_callback, lines 128-131: the stored
\* history is kept
settings_receive_country_callback(user_id, data) ==
    /\ pc = "idle"
    /\ settings_state[user_id] = "CHANGE_COUNTRY"
    /\ LET chosen_country_name == country_map(SettingsLastPart(data))
       IN profiles' = update_user_profile(user_id,
                          update_user_profile(user_id, profiles,
                                              [country |-> chosen_country_name]),
                          [state_province |-> None])
    /\ sent' = [sent EXCEPT ![user_id] = CountryUpdatedText]
    /\ settings_state' = [settings_state EXCEPT ![user_id] = "CHANGE_STATE"]
    /\ UNCHANGED user_data
    /\ UNCHANGED SettingsFrame

\* handlers.py settings_receive_state, lines 133-136
settings_receive_state(user_id, state_province_text) ==
    /\ pc = "idle"
    /\ settings_state[user_id] = "CHANGE_STATE"
    /\ conv_state[user_id] # "ONBOARD_STATE"
    /\ profiles' = update_user_profile(user_id, profiles,
                       [state_province |-> state_province_text])
    /\ sent' = [sent EXCEPT ![user_id] = StateUpdatedText]
    /\ user_data' = [user_data EXCEPT ![user_id] = NoHistory]
    /\ settings_state' = [settings_state EXCEPT ![user_id] = "END"]
    /\ UNCHANGED SettingsFrame

\* handlers.py settings_cancel, lines 138-141: /cancel in any state of the
\* conversation (onboarding_conversation takes /cancel first when the user
\* is in one of its states)
settings_cancel(user_id) ==
    /\ pc = "idle"
    /\ settings_state[user_id] # "END"
    /\ conv_state[user_id] = "END"
    /\ sent' = [sent EXCEPT ![user_id] = SettingsCancelledText]
    /\ settings_state' = [settings_state EXCEPT ![user_id] = "END"]
    /\ UNCHANGED << user_data, profiles >>
    /\ UNCHANGED SettingsFrame

(***************************************************************************)
(* SpecSettings: the user whose profile came from the profile file sends    *)
(* texts and changes language, country and state in between.               *)
(***************************************************************************)
MaxSettingsTurns == 2

SettingsActions ==
    { "setting_change_lang", "setting_change_country", "setting_change_state",
      "setting_cancel" }

SettingsLanguageButtons == { "setting_select_lang_en" }
SettingsCountryButtons == { "setting_select_country_MY" }

NextSettings ==
    \/ settings_start(2)
    \/ \E action \in SettingsActions : settings_select_action_callback(2, action)
    \/ \E data \in SettingsLanguageButtons : settings_receive_language_callback(2, data)
    \/ \E data \in SettingsCountryButtons : settings_receive_country_callback(2, data)
    \/ settings_receive_state(2, "Selangor")
    \/ settings_cancel(2)
    \/ handle_message(2, "Hi", MaxSettingsTurns)
    \/ \E outcome \in AbortOutcomes : CallLLM(outcome, MaxRounds)
    \/ ShouldContinue
    \/ ExecuteTools({"ok"})
    \/ FinishTurn

SpecSettings == InitOnboard /\ [][NextSettings]_vars

\* the positions of the directives in a sequence of messages or stored dicts
SystemIndexes(msgs) == { i \in 1..Len(msgs) : msgs[i].type = "system" }
SystemRoleIndexes(dicts) == { i \in 1..Len(dicts) : dicts[i].role = "system" }

\* C33: in every turn the history handed to the loop and every payload sent
\* to the model have exactly one directive, at index 0, and it is the one
\* built from the user's profile as it is in that turn, whatever directive an
\* earlier turn stored; and after a turn the stored history has exactly one
\* directive, at index 0, the one the turn used.
C33_DirectiveReplaced ==
    /\ pc \in {"call_llm", "route", "execute_tools", "done"} =>
          /\ SystemIndexes(messages) = {1}
          /\ messages[1].content = DynamicSystemPrompt(profiles[cur_user])
    /\ (pc \in {"call_llm", "route", "execute_tools", "done"} /\ api_request # NoRequest) =>
          /\ SystemRoleIndexes(api_request.messages) = {1}
          /\ api_request.messages[1].content = DynamicSystemPrompt(profiles[cur_user])
    /\ (pc = "idle" /\ user_data[cur_user].has) =>
          /\ SystemRoleIndexes(user_data[cur_user].dicts) = {1}
          /\ user_data[cur_user].dicts[1].content = messages[1].content

\* C33 witness: the user changed the country after the first turn and left
\* the settings; the second turn's payload carries the directive for the new
\* country while the stored history still holds the first turn's directive
C33_Witness ==
    /\ pc = "route" /\ turns = 2 /\ cur_user = 2
    /\ ProfileGet(profiles[2], "country", None) = "Malaysia"
    /\ user_data[2].has
    /\ user_data[2].dicts[1].content
           = "You are AgriSight Bot ... You MUST respond ONLY in Bahasa Indonesia."
    /\ api_request.messages[1].content
           = "You are AgriSight Bot ... located in Malaysia ... You MUST respond ONLY in Bahasa Indonesia."
    /\ messages[1].content = api_request.messages[1].content

\* the texts of the turns' inputs
InputTexts == { input.text : input \in TurnInputs }

\* C34: a model call leaves the messages already in the history as they were
\* (it only appends its reply); a payload carries an image only in a turn
\* that has one, on the entry of that turn's user message; the stored
\* history holds that user message as its text alone; and a turn without an
\* image calls the text/tool model with no image in the payload, whatever
\* the turns before it were.
C34_ImageOnlyInItsTurnsPayload ==
    /\ [][ pc = "call_llm" =>
             /\ Len(messages') >= Len(messages)
             /\ SubSeq(messages', 1, Len(messages)) = messages ]_vars
    /\ [](\A i \in 1..Len(messages) :
            messages[i].type = "human" => messages[i].content \in InputTexts)
    /\ [](\A i \in 1..Len(user_data[1].dicts) :
            user_data[1].dicts[i].role = "user" =>
                user_data[1].dicts[i] =
                    MsgDict("user", user_data[1].dicts[i].content, << >>, None, None)
                /\ user_data[1].dicts[i].content \in InputTexts)
    /\ []((pc # "idle" /\ api_request # NoRequest /\ image_base64 = None) =>
            /\ api_request.model = TEXT_TOOL_MODEL_NAME
            /\ ImageCarriers(api_request.messages) = {})
    /\ []((pc # "idle" /\ api_request # NoRequest /\ image_base64 # None) =>
            /\ ImageCarriers(api_request.messages) = { LastHumanMessageIndex(messages) }
            /\ LastHumanMessageIndex(messages) = Len(messages) - appended)

\* C34 witness: the first turn was a photo turn and is stored; the second
\* turn is a text turn, its call went to the text/tool model and its payload
\* holds the photo turn's user message as text without the image
C34_Witness ==
    /\ pc = "route" /\ turns = 2 /\ image_base64 = None
    /\ user_data[1].has
    /\ user_data[1].dicts[2].content = "Please analyze this crop image for diseases."
    /\ api_request.model = TEXT_TOOL_MODEL_NAME
    /\ api_request.messages[2].role = "user"
    /\ api_request.messages[2].content = "Please analyze this crop image for diseases."
    /\ api_request.messages[2].image_url = None
    /\ Last(messages).type = "ai"

=============================================================================
